---- MODULE Spec2Model ----
(***************************************************************************)
(* Model of the real_estate application of back-planok: the persisted      *)
(* tables Usuario and UnidadPropiedad, the Service and Repository layers   *)
(* that read and write them, and the unit state machine                    *)
(* Disponible -> Reservado -> Vendido.                                     *)
(*                                                                         *)
(* A table is a function from primary keys to rows; a key that maps to     *)
(* NULL has no row.  Primary keys are UUIDs in the code: the model hands   *)
(* them out in increasing order and never hands one out twice.             *)
(***************************************************************************)
EXTENDS Integers, Sequences, FiniteSets, TLC

VARIABLES
    usuarios,      \* table real_estate_usuario: id -> row or NULL
    unidades,      \* table real_estate_unidadpropiedad: id -> row or NULL
    nextUsuario,   \* the next fresh Usuario id
    nextUnidad,    \* the next fresh UnidadPropiedad id
    proyectos,     \* table real_estate_proyectoinmobiliario: id -> row
    nextProyecto,  \* the next fresh ProyectoInmobiliario id
    last,          \* the last service call and its outcome
    pc             \* the position and locals of each in-flight request

vars == <<usuarios, unidades, nextUsuario, nextUnidad, proyectos, nextProyecto, last, pc>>

(***************************************************************************)
(* Bounds                                                                  *)
(***************************************************************************)
NumUsuarios == 2
NumUnidades == 1

UsuarioIds == 1..NumUsuarios
NumProyectos == 1
ProyectoIds == 1..NumProyectos
UnidadIds == 1..NumUnidades

Proyectos == {"P1"}
Procs == {"r1", "r2"}

\* Python None / SQL NULL in a column that holds an id
NULL == 0

(***************************************************************************)
(* Python and ORM helpers                                                  *)
(***************************************************************************)
\* kwargs without key (the dict left by kwargs.pop(key, None))
Pop(kwargs, key) == [k \in (DOMAIN kwargs) \ {key} |-> kwargs[k]]

\* for key, value in kwargs.items(): setattr(instance, key, value)
SetAttrs(instance, kwargs) ==
    [f \in DOMAIN instance |-> IF f \in DOMAIN kwargs THEN kwargs[f] ELSE instance[f]]

\* Model(**kwargs): the column defaults overridden by the keyword arguments
NewRow(defaults, kwargs) == SetAttrs(defaults, kwargs)

\* A table holds a row for id (objects.get(id=id) does not raise DoesNotExist)
Stored(table, id) == id \in DOMAIN table

\* INSERT, or UPDATE of the whole row: Model.save() writes every column and
\* inserts the row when no row has the primary key.
Put(table, id, row) == [k \in (DOMAIN table) \cup {id} |-> IF k = id THEN row ELSE table[k]]

\* DELETE of one row
Remove(table, id) == [k \in (DOMAIN table) \ {id} |-> table[k]]

(***************************************************************************)
(* models.py                                                               *)
(***************************************************************************)
\* UnidadPropiedad.STATUS_CHOICES
STATUS_CHOICES == {"Disponible", "Vendido", "Reservado"}

\* The column defaults of a new UnidadPropiedad
UnidadDefaults ==
    [proyecto_id |-> "", tipo_unidad |-> "", precio_venta |-> 0,
     estado |-> "Disponible", cliente_id |-> NULL]

\* UnidadPropiedad.cliente = ForeignKey(Usuario, null=True): the store refuses
\* a row whose cliente_id is neither NULL nor the id of a stored Usuario.
ClienteFkOk(us, row) ==
    \/ row.cliente_id = NULL
    \/ Stored(us, row.cliente_id)

\* on_delete=models.SET_NULL: deleting a Usuario nulls the cliente of its units
SetNullCliente(uns, usuario_id) ==
    [k \in DOMAIN uns |->
        IF uns[k].cliente_id = usuario_id
        THEN [uns[k] EXCEPT !.cliente_id = NULL]
        ELSE uns[k]]

(***************************************************************************)
(* repositories/unidad_repository.py                                       *)
(* A repository call returns [db |-> the table afterwards, res |-> outcome]*)
(***************************************************************************)
\* UnidadRepository.create: objects.create(**kwargs)
UnidadRepository_create(uns, us, id, kwargs) ==
    LET row == NewRow(UnidadDefaults, kwargs) IN
    IF ClienteFkOk(us, row)
    THEN [db |-> Put(uns, id, row), res |-> "ok"]
    ELSE [db |-> uns, res |-> "IntegrityError"]

\* UnidadRepository.update: setattr each keyword on the instance, instance.save()
UnidadRepository_update(uns, us, id, instance, kwargs) ==
    LET row == SetAttrs(instance, kwargs) IN
    IF ClienteFkOk(us, row)
    THEN [db |-> Put(uns, id, row), res |-> "ok"]
    ELSE [db |-> uns, res |-> "IntegrityError"]

(***************************************************************************)
(* services/base_service.py                                                *)
(***************************************************************************)
\* BaseService.update on the unit table: get_by_id, None when there is no
\* row, else repository.update
BaseService_update(uns, us, id, kwargs) ==
    IF ~Stored(uns, id)
    THEN [db |-> uns, res |-> "None"]
    ELSE UnidadRepository_update(uns, us, id, uns[id], kwargs)

(***************************************************************************)
(* models.py: Usuario                                                      *)
(***************************************************************************)
\* An e-mail address is its local part and its domain part
Email(local, domain) == [local |-> local, domain |-> domain]
EmailVacio == Email("", "")

\* str.lower() on the domain parts the model uses
Lower(domain) == IF domain = "X.CL" THEN "x.cl" ELSE domain

\* BaseUserManager.normalize_email: lowercases the domain part
normalize_email(email) == Email(email.local, Lower(email.domain))

\* The password column: a hasher's output, or a raw string
RawPassword(raw) == [algo |-> "", digest |-> raw]
make_password(raw) == [algo |-> "pbkdf2_sha256", digest |-> raw]
check_password(raw, stored) == stored = make_password(raw)

\* Usuario.ROLE_CHOICES
ROLE_CHOICES == {"Administrador", "Cliente"}

\* The column defaults of a new Usuario
UsuarioDefaults ==
    [email |-> EmailVacio, rut |-> "", username |-> "", role |-> "Cliente",
     password |-> RawPassword(""), is_active |-> TRUE, is_staff |-> FALSE,
     is_superuser |-> FALSE]

\* Mutant: rut and email are declared without unique=True
UsuarioUniqueOk_SoloUsername(us, id, row) ==
    \A k \in (DOMAIN us) \ {id} : us[k].username # row.username

\* rut, email and username are unique=True: the store refuses a row that
\* repeats one of them in another row.
UsuarioUniqueOk(us, id, row) ==
    \A k \in (DOMAIN us) \ {id} :
        /\ us[k].email # row.email
        /\ us[k].rut # row.rut
        /\ us[k].username # row.username

\* Model.save() / objects.create() on the Usuario table
UsuarioSave(us, id, row) ==
    IF UsuarioUniqueOk(us, id, row)
    THEN [db |-> Put(us, id, row), res |-> "ok"]
    ELSE [db |-> us, res |-> "IntegrityError"]

\* UserManager.create_user(email, password, **extra_fields)
create_user(us, id, password, kwargs) ==
    IF "email" \notin DOMAIN kwargs
    THEN [db |-> us, res |-> "TypeError"]
    ELSE IF kwargs.email = EmailVacio
    THEN [db |-> us, res |-> "ValueError"]
    ELSE UsuarioSave(us, id,
            [NewRow(UsuarioDefaults, kwargs) EXCEPT
                !.email = normalize_email(kwargs.email),
                !.password = make_password(password)])

(***************************************************************************)
(* repositories/usuario_repository.py                                      *)
(***************************************************************************)
\* a keyword argument that is present and truthy (a non-empty string)
TruthyStr(kwargs, key) == key \in DOMAIN kwargs /\ kwargs[key] # ""

\* UsuarioRepository.get_by_email / get_by_rut: the ids of the rows found
get_by_email(us, email) == {k \in DOMAIN us : us[k].email = email}
get_by_rut(us, rut) == {k \in DOMAIN us : us[k].rut = rut}

\* UsuarioRepository.create
UsuarioRepository_create(us, id, kwargs) ==
    IF TruthyStr(kwargs, "password")
    THEN create_user(us, id, kwargs.password, Pop(kwargs, "password"))
    ELSE UsuarioSave(us, id, NewRow(UsuarioDefaults, Pop(kwargs, "password")))

\* Mutant: the password is set on the instance like any other field
UsuarioRepository_update_Plano(us, id, instance, kwargs) ==
    LET row == SetAttrs(instance, Pop(kwargs, "password")) IN
    UsuarioSave(us, id,
        IF TruthyStr(kwargs, "password")
        THEN [row EXCEPT !.password = RawPassword(kwargs.password)]
        ELSE row)

\* UsuarioRepository.update
UsuarioRepository_update(us, id, instance, kwargs) ==
    LET row == SetAttrs(instance, Pop(kwargs, "password")) IN
    UsuarioSave(us, id,
        IF TruthyStr(kwargs, "password")
        THEN [row EXCEPT !.password = make_password(kwargs.password)]
        ELSE row)

(***************************************************************************)
(* services/usuario_service.py                                             *)
(***************************************************************************)
\* "if email and self.get_by_email(email)"
EmailTaken(us, kwargs) ==
    /\ "email" \in DOMAIN kwargs
    /\ kwargs.email # EmailVacio
    /\ get_by_email(us, kwargs.email) # {}

\* "if rut and self.get_by_rut(rut)"
RutTaken(us, kwargs) ==
    /\ TruthyStr(kwargs, "rut")
    /\ get_by_rut(us, kwargs.rut) # {}

\* "if role and role not in ['Administrador', 'Cliente']"
RoleRejected(kwargs) ==
    /\ TruthyStr(kwargs, "role")
    /\ kwargs.role \notin {"Administrador", "Cliente"}

\* UsuarioService.create
UsuarioService_create(us, id, kwargs) ==
    IF EmailTaken(us, kwargs) \/ RutTaken(us, kwargs) \/ RoleRejected(kwargs)
    THEN [db |-> us, res |-> "ValueError"]
    ELSE UsuarioRepository_create(us, id, kwargs)

\* Mutant: update runs the checks of create, which do not skip the user's own
\* row
UsuarioService_update_SinExcluir(us, id, kwargs) ==
    IF ~Stored(us, id)
    THEN [db |-> us, res |-> "None"]
    ELSE IF EmailTaken(us, kwargs) \/ RutTaken(us, kwargs) \/ RoleRejected(kwargs)
    THEN [db |-> us, res |-> "ValueError"]
    ELSE UsuarioRepository_update(us, id, us[id], kwargs)

\* UsuarioService.update: the uniqueness checks skip the user's own values
UsuarioService_update(us, id, kwargs) ==
    IF ~Stored(us, id)
    THEN [db |-> us, res |-> "None"]
    ELSE LET instance == us[id] IN
         IF \/ /\ "email" \in DOMAIN kwargs
               /\ kwargs.email # EmailVacio
               /\ kwargs.email # instance.email
               /\ get_by_email(us, kwargs.email) \ {id} # {}
            \/ /\ TruthyStr(kwargs, "rut")
               /\ kwargs.rut # instance.rut
               /\ get_by_rut(us, kwargs.rut) \ {id} # {}
            \/ RoleRejected(kwargs)
         THEN [db |-> us, res |-> "ValueError"]
         ELSE UsuarioRepository_update(us, id, instance, kwargs)

\* UsuarioService.cambiar_password: False when there is no such user or the
\* current password does not check; else set_password and save
UsuarioService_cambiar_password(us, user_id, password_actual, password_nuevo) ==
    IF ~Stored(us, user_id)
    THEN [db |-> us, res |-> "False"]
    ELSE IF ~check_password(password_actual, us[user_id].password)
    THEN [db |-> us, res |-> "False"]
    ELSE LET r == UsuarioSave(us, user_id,
                    [us[user_id] EXCEPT !.password = make_password(password_nuevo)])
         IN [db |-> r.db, res |-> IF r.res = "ok" THEN "True" ELSE r.res]

(***************************************************************************)
(* services/unidad_service.py                                              *)
(***************************************************************************)
\* The outcome recorded for a call: what it was, on which row, for which
\* client, and what it returned or raised.
Call(op, id, cliente, res) == [op |-> op, id |-> id, cliente |-> cliente, res |-> res]

\* Mutant: the estado check is dropped ("if not unidad:")
AsignarCliente_SinEstado(uns, us, unidad_id, cliente_id) ==
    IF ~Stored(uns, unidad_id)
    THEN [db |-> uns, res |-> "UnidadNoDisponibleError"]
    ELSE BaseService_update(uns, us, unidad_id,
            [cliente_id |-> cliente_id, estado |-> "Reservado"])

\* Mutant: the client is written before the estado check raises
AsignarCliente_EscribeAntes(uns, us, unidad_id, cliente_id) ==
    IF ~Stored(uns, unidad_id)
    THEN [db |-> uns, res |-> "UnidadNoDisponibleError"]
    ELSE IF uns[unidad_id].estado # "Disponible"
    THEN [db |-> BaseService_update(uns, us, unidad_id, [cliente_id |-> cliente_id]).db,
          res |-> "UnidadNoDisponibleError"]
    ELSE BaseService_update(uns, us, unidad_id,
            [cliente_id |-> cliente_id, estado |-> "Reservado"])

\* UnidadService.asignar_cliente as one uninterrupted call: the outcome and
\* the unit table afterwards
AsignarCliente(uns, us, unidad_id, cliente_id) ==
    IF ~Stored(uns, unidad_id) \/ uns[unidad_id].estado # "Disponible"
    THEN [db |-> uns, res |-> "UnidadNoDisponibleError"]
    ELSE BaseService_update(uns, us, unidad_id,
            [cliente_id |-> cliente_id, estado |-> "Reservado"])

\* Mutant: the sale also clears the client
MarcarComoVendida_PierdeCliente(uns, us, unidad_id) ==
    IF ~Stored(uns, unidad_id)
    THEN [db |-> uns, res |-> "UnidadNoDisponibleError"]
    ELSE IF uns[unidad_id].estado # "Reservado"
    THEN [db |-> uns, res |-> "UnidadNoDisponibleError"]
    ELSE IF uns[unidad_id].cliente_id = NULL
    THEN [db |-> uns, res |-> "ClienteNoValidoError"]
    ELSE BaseService_update(uns, us, unidad_id,
            [estado |-> "Vendido", cliente_id |-> NULL])

\* Mutant: the client check comes before the estado check
MarcarComoVendida_ClientePrimero(uns, us, unidad_id) ==
    IF ~Stored(uns, unidad_id)
    THEN [db |-> uns, res |-> "UnidadNoDisponibleError"]
    ELSE IF uns[unidad_id].cliente_id = NULL
    THEN [db |-> uns, res |-> "ClienteNoValidoError"]
    ELSE IF uns[unidad_id].estado # "Reservado"
    THEN [db |-> uns, res |-> "UnidadNoDisponibleError"]
    ELSE BaseService_update(uns, us, unidad_id, [estado |-> "Vendido"])

\* UnidadService.marcar_como_vendida as one uninterrupted call
MarcarComoVendida(uns, us, unidad_id) ==
    IF ~Stored(uns, unidad_id)
    THEN [db |-> uns, res |-> "UnidadNoDisponibleError"]
    ELSE IF uns[unidad_id].estado # "Reservado"
    THEN [db |-> uns, res |-> "UnidadNoDisponibleError"]
    ELSE IF uns[unidad_id].cliente_id = NULL
    THEN [db |-> uns, res |-> "ClienteNoValidoError"]
    ELSE BaseService_update(uns, us, unidad_id, [estado |-> "Vendido"])

(***************************************************************************)
(* UnidadService.get_estadisticas_por_proyecto                             *)
(***************************************************************************)
\* The ids a queryset yields, in increasing order
RECURSIVE IdsInOrder(_)
IdsInOrder(S) ==
    IF S = {} THEN <<>>
    ELSE LET m == CHOOSE x \in S : \A y \in S : x <= y
         IN <<m>> \o IdsInOrder(S \ {m})

\* Mutant: the filter on the project is lost
get_by_proyecto_Todos(uns, proyecto_id) == IdsInOrder(DOMAIN uns)

\* UnidadRepository.get_by_proyecto: filter(proyecto_id=proyecto_id)
get_by_proyecto(uns, proyecto_id) ==
    IdsInOrder({k \in DOMAIN uns : uns[k].proyecto_id = proyecto_id})

\* "for unidad in unidades: if key in d: d[key] += 1 else: d[key] = 1"
RECURSIVE Tally(_, _, _, _)
Tally(uns, ids, field, d) ==
    IF ids = <<>> THEN d
    ELSE LET key == uns[Head(ids)][field] IN
         Tally(uns, Tail(ids), field,
               IF key \in DOMAIN d
               THEN [d EXCEPT ![key] = d[key] + 1]
               ELSE [k \in (DOMAIN d) \cup {key} |-> IF k = key THEN 1 ELSE d[k]])

RECURSIVE SumPrecio(_, _)
SumPrecio(uns, ids) ==
    IF ids = <<>> THEN 0 ELSE uns[Head(ids)].precio_venta + SumPrecio(uns, Tail(ids))

\* Min / Max / Avg over the queryset; [none |-> TRUE] is SQL NULL (no rows).
\* The average is kept exact, as the sum and the number of rows.
Aggregate(uns, ids) ==
    IF ids = <<>>
    THEN [precio_promedio |-> [none |-> TRUE], precio_minimo |-> [none |-> TRUE],
          precio_maximo |-> [none |-> TRUE], total_unidades |-> 0]
    ELSE LET P == {uns[ids[i]].precio_venta : i \in DOMAIN ids} IN
         [precio_promedio |-> [sum |-> SumPrecio(uns, ids), n |-> Len(ids)],
          precio_minimo |-> [v |-> CHOOSE x \in P : \A y \in P : x <= y],
          precio_maximo |-> [v |-> CHOOSE x \in P : \A y \in P : x >= y],
          total_unidades |-> Len(ids)]

\* Mutant: the estado grouping is keyed by tipo_unidad
get_estadisticas_por_proyecto_Tipo(uns, proyecto_id) ==
    LET ids == get_by_proyecto(uns, proyecto_id)
        stats == Aggregate(uns, ids)
    IN [precio_promedio |-> stats.precio_promedio,
        precio_minimo |-> stats.precio_minimo,
        precio_maximo |-> stats.precio_maximo,
        total_unidades |-> stats.total_unidades,
        unidades_por_estado |-> Tally(uns, ids, "tipo_unidad", <<>>),
        unidades_por_tipo |-> Tally(uns, ids, "tipo_unidad", <<>>)]

get_estadisticas_por_proyecto(uns, proyecto_id) ==
    LET ids == get_by_proyecto(uns, proyecto_id)
        stats == Aggregate(uns, ids)
    IN [precio_promedio |-> stats.precio_promedio,
        precio_minimo |-> stats.precio_minimo,
        precio_maximo |-> stats.precio_maximo,
        total_unidades |-> stats.total_unidades,
        unidades_por_estado |-> Tally(uns, ids, "estado", <<>>),
        unidades_por_tipo |-> Tally(uns, ids, "tipo_unidad", <<>>)]

\* d.get(key, 0) on a grouping of the statistics
CountOf(d, key) == IF key \in DOMAIN d THEN d[key] ELSE 0

(***************************************************************************)
(* Python values of a request body.  A value carries its type; a string    *)
(* whose characters the code inspects is the tuple of its characters, any  *)
(* other string is a TLA+ string (Len is defined on both).                 *)
(***************************************************************************)
NoneV == [t |-> "None"]
StrV(s) == [t |-> "str", s |-> s]
Chars(cs) == [t |-> "str", cs |-> cs]
IntV(n) == [t |-> "int", n |-> n]
BoolV(b) == [t |-> "bool", b |-> b]
DateV(y, m, d) == [t |-> "date", d |-> <<y, m, d>>]

\* len(x) of a string
StrLen(x) == IF "cs" \in DOMAIN x THEN Len(x.cs) ELSE Len(x.s)

\* data.get(key)
Get(data, key) == IF key \in DOMAIN data THEN data[key] ELSE NoneV

\* bool(x): None, '' and 0 are false
Truthy(x) ==
    CASE x.t = "None" -> FALSE
      [] x.t = "str" -> StrLen(x) > 0
      [] x.t = "int" -> x.n # 0
      [] OTHER -> TRUE

\* x in [...] for a list of strings: a value of another type is not in it
InList(x, list) == x.t = "str" /\ "s" \in DOMAIN x /\ x.s \in list

Digits == {"0", "1", "2", "3", "4", "5", "6", "7", "8", "9"}
Lowers == {"a", "b", "c", "d", "e", "i", "l", "n", "o", "r", "s", "t", "u", "v", "x"}
Uppers == {"A", "C", "K", "L", "N", "S", "X"}
Alnum == Digits \cup Lowers \cup Uppers

DigitVal(c) ==
    CASE c = "0" -> 0 [] c = "1" -> 1 [] c = "2" -> 2 [] c = "3" -> 3 [] c = "4" -> 4
      [] c = "5" -> 5 [] c = "6" -> 6 [] c = "7" -> 7 [] c = "8" -> 8 [] c = "9" -> 9

\* every character of cs[a..b] is in class
AllIn(cs, a, b, class) == \A i \in a..b : cs[i] \in class

(***************************************************************************)
(* validators/base_validator.py                                            *)
(* A run of checks yields the errors added, in order, and the exception    *)
(* that ended it ("" when none was raised).                                *)
(***************************************************************************)
NoError == [errors |-> <<>>, raised |-> ""]

\* add_error(field, message)
AddError(field, message) ==
    [errors |-> <<[field |-> field, message |-> message]>>, raised |-> ""]

Raise(exc) == [errors |-> <<>>, raised |-> exc]

\* two checks one after the other: an exception ends the run
Then(r1, r2) ==
    IF r1.raised # "" THEN r1
    ELSE [errors |-> r1.errors \o r2.errors, raised |-> r2.raised]

\* len(x): defined on strings only
LenOrRaise(x, body(_)) == IF x.t = "str" THEN body(StrLen(x)) ELSE Raise("TypeError")

\* get_error_dict: field -> the messages of its errors, in order
RECURSIVE get_error_dict(_)
get_error_dict(errors) ==
    IF errors = <<>> THEN <<>>
    ELSE LET n == Len(errors)
             e == errors[n]
             d == get_error_dict(SubSeq(errors, 1, n - 1))
         IN IF e.field \in DOMAIN d
            THEN [d EXCEPT ![e.field] = Append(d[e.field], e.message)]
            ELSE [f \in (DOMAIN d) \cup {e.field} |->
                    IF f = e.field THEN <<e.message>> ELSE d[f]]

(***************************************************************************)
(* validators/unidad_validator.py                                          *)
(***************************************************************************)
tipos_validos ==
    {"Departamento", "Casa", "Oficina", "Local Comercial", "Terreno", "Bodega",
     "Estacionamiento"}

UnidadValidator_validate_proyecto(data) ==
    IF ~Truthy(Get(data, "proyecto_id"))
    THEN AddError("proyecto_id", "El proyecto es obligatorio")
    ELSE NoError

UnidadValidator_validate_numero_unidad(data) ==
    LET numero_unidad == Get(data, "numero_unidad")
        Largo(n) == IF n > 20
                    THEN AddError("numero_unidad",
                                  "El numero de unidad no puede tener mas de 20 caracteres")
                    ELSE NoError
    IN IF ~Truthy(numero_unidad)
       THEN AddError("numero_unidad", "El numero de unidad es obligatorio")
       ELSE LenOrRaise(numero_unidad, Largo)

UnidadValidator_validate_tipo_unidad(data) ==
    LET tipo_unidad == Get(data, "tipo_unidad") IN
    IF ~Truthy(tipo_unidad)
    THEN AddError("tipo_unidad", "El tipo de unidad es obligatorio")
    ELSE IF ~InList(tipo_unidad, tipos_validos)
    THEN AddError("tipo_unidad", "El tipo de unidad debe ser uno de")
    ELSE NoError

\* "if x is None ... elif x <= 0": the comparison with 0 is defined on numbers
MayorQueCero(data, field, obligatorio, positivo) ==
    LET x == Get(data, field) IN
    IF x.t = "None" THEN AddError(field, obligatorio)
    ELSE IF x.t # "int" THEN Raise("TypeError")
    ELSE IF x.n <= 0 THEN AddError(field, positivo)
    ELSE NoError

UnidadValidator_validate_metraje(data) ==
    MayorQueCero(data, "metraje_cuadrado", "El metraje cuadrado es obligatorio",
                 "El metraje cuadrado debe ser mayor que cero")

UnidadValidator_validate_precio(data) ==
    MayorQueCero(data, "precio_venta", "El precio de venta es obligatorio",
                 "El precio de venta debe ser mayor que cero")

UnidadValidator_validate_estado(data) ==
    LET estado == Get(data, "estado") IN
    IF ~Truthy(estado)
    THEN AddError("estado", "El estado es obligatorio")
    ELSE IF ~InList(estado, {"Disponible", "Reservado", "Vendido", "No Disponible"})
    THEN AddError("estado", "El estado debe ser uno de")
    ELSE NoError

UnidadValidator_validate(data) ==
    Then(UnidadValidator_validate_proyecto(data),
    Then(UnidadValidator_validate_numero_unidad(data),
    Then(UnidadValidator_validate_tipo_unidad(data),
    Then(UnidadValidator_validate_metraje(data),
    Then(UnidadValidator_validate_precio(data),
         UnidadValidator_validate_estado(data))))))

(***************************************************************************)
(* validators/usuario_validator.py                                         *)
(***************************************************************************)
\* re.match(r'^\d{1,8}-[\dkK]$', rut)
is_valid_rut_format(cs) ==
    LET n == Len(cs) IN
    /\ n >= 3
    /\ n <= 10
    /\ AllIn(cs, 1, n - 2, Digits)
    /\ cs[n - 1] = "-"
    /\ cs[n] \in Digits \cup {"k", "K"}

\* re.match(r'^[a-zA-Z0-9._%+-]+@[a-zA-Z0-9.-]+\.[a-zA-Z]{2,}$', email)
is_valid_email(cs) ==
    LET n == Len(cs) IN
    \E at \in 2..n, dot \in 4..n :
        /\ at + 1 < dot
        /\ dot + 2 <= n
        /\ AllIn(cs, 1, at - 1, Alnum \cup {".", "_", "%", "+", "-"})
        /\ cs[at] = "@"
        /\ AllIn(cs, at + 1, dot - 1, Alnum \cup {".", "-"})
        /\ cs[dot] = "."
        /\ AllIn(cs, dot + 1, n, Lowers \cup Uppers)

\* re.match(r'^(\+\d{1,3})?[0-9]{8,12}$', phone)
is_valid_phone(cs) ==
    LET n == Len(cs) IN
    \/ n >= 8 /\ n <= 12 /\ AllIn(cs, 1, n, Digits)
    \/ /\ n >= 1
       /\ cs[1] = "+"
       /\ \E k \in 1..3 :
            /\ n - 1 - k >= 8
            /\ n - 1 - k <= 12
            /\ AllIn(cs, 2, n, Digits)

\* any(c.isupper()) and any(c.islower()) and any(c.isdigit())
is_strong_password(cs) ==
    /\ \E i \in DOMAIN cs : cs[i] \in Uppers
    /\ \E i \in DOMAIN cs : cs[i] \in Lowers
    /\ \E i \in DOMAIN cs : cs[i] \in Digits

\* "if not x: required elif not pattern(x): format"; re.match is defined on
\* strings only
RequiredPattern(data, field, obligatorio, formato, Matches(_)) ==
    LET x == Get(data, field) IN
    IF ~Truthy(x) THEN AddError(field, obligatorio)
    ELSE IF x.t # "str" THEN Raise("TypeError")
    ELSE IF ~Matches(x.cs) THEN AddError(field, formato)
    ELSE NoError

UsuarioValidator_validate_rut(data) ==
    RequiredPattern(data, "rut", "El RUT es obligatorio",
                    "El formato del RUT no es valido", is_valid_rut_format)

UsuarioValidator_validate_email(data) ==
    RequiredPattern(data, "email", "El email es obligatorio",
                    "El formato del email no es valido", is_valid_email)

\* "if not x: required elif len(x) < 2: too short"
Nombre(data, field, obligatorio, corto) ==
    LET x == Get(data, field)
        Largo(n) == IF n < 2 THEN AddError(field, corto) ELSE NoError
    IN IF ~Truthy(x) THEN AddError(field, obligatorio) ELSE LenOrRaise(x, Largo)

UsuarioValidator_validate_nombres(data) ==
    Then(Nombre(data, "first_name", "El nombre es obligatorio",
                "El nombre debe tener al menos 2 caracteres"),
         Nombre(data, "last_name", "El apellido es obligatorio",
                "El apellido debe tener al menos 2 caracteres"))

UsuarioValidator_validate_password(data) ==
    LET password == Get(data, "password") IN
    IF ~Truthy(password) THEN NoError
    ELSE IF password.t # "str" THEN Raise("TypeError")
    ELSE IF StrLen(password) < 8
    THEN AddError("password", "La contrasena debe tener al menos 8 caracteres")
    ELSE IF ~is_strong_password(password.cs)
    THEN AddError("password", "La contrasena debe contener mayuscula, minuscula y numero")
    ELSE NoError

UsuarioValidator_validate_role(data) ==
    LET role == Get(data, "role") IN
    IF Truthy(role) /\ ~InList(role, {"Administrador", "Cliente"})
    THEN AddError("role", "El rol debe ser uno de: Administrador, Cliente")
    ELSE NoError

UsuarioValidator_validate_phone(data) ==
    LET phone == Get(data, "phone") IN
    IF ~Truthy(phone) THEN NoError
    ELSE IF phone.t # "str" THEN Raise("TypeError")
    ELSE IF ~is_valid_phone(phone.cs)
    THEN AddError("phone", "El formato del telefono no es valido")
    ELSE NoError

UsuarioValidator_validate(data) ==
    Then(UsuarioValidator_validate_rut(data),
    Then(UsuarioValidator_validate_email(data),
    Then(UsuarioValidator_validate_nombres(data),
    Then(UsuarioValidator_validate_password(data),
    Then(UsuarioValidator_validate_role(data),
         UsuarioValidator_validate_phone(data))))))

(***************************************************************************)
(* validators/proyecto_validator.py                                        *)
(***************************************************************************)
\* The days of month m of year y
DaysIn(y, m) ==
    IF m \in {4, 6, 9, 11} THEN 30
    ELSE IF m # 2 THEN 31
    ELSE IF (y % 4 = 0 /\ y % 100 # 0) \/ y % 400 = 0 THEN 29
    ELSE 28

\* date.fromisoformat on 'YYYY-MM-DD': the date, or NoneV for ValueError
fromisoformat(cs) ==
    IF /\ Len(cs) = 10
       /\ cs[5] = "-"
       /\ cs[8] = "-"
       /\ \A i \in {1, 2, 3, 4, 6, 7, 9, 10} : cs[i] \in Digits
    THEN LET y == 1000 * DigitVal(cs[1]) + 100 * DigitVal(cs[2])
                    + 10 * DigitVal(cs[3]) + DigitVal(cs[4])
             m == 10 * DigitVal(cs[6]) + DigitVal(cs[7])
             d == 10 * DigitVal(cs[9]) + DigitVal(cs[10])
         IN IF y >= 1 /\ m >= 1 /\ m <= 12 /\ d >= 1 /\ d <= DaysIn(y, m)
            THEN DateV(y, m, d)
            ELSE NoneV
    ELSE NoneV

\* date.__gt__
DateGt(a, b) ==
    \/ a[1] > b[1]
    \/ a[1] = b[1] /\ a[2] > b[2]
    \/ a[1] = b[1] /\ a[2] = b[2] /\ a[3] > b[3]

\* "if len(x) < lo ... elif len(x) > hi" on a required or optional string
Longitud(data, field, required, obligatorio, lo, corto, hi, largo) ==
    LET x == Get(data, field)
        Largo(n) == IF n < lo THEN AddError(field, corto)
                    ELSE IF n > hi THEN AddError(field, largo)
                    ELSE NoError
    IN IF ~Truthy(x)
       THEN IF required THEN AddError(field, obligatorio) ELSE NoError
       ELSE LenOrRaise(x, Largo)

ProyectoValidator_validate_nombre(data) ==
    Longitud(data, "nombre", TRUE, "El nombre es obligatorio",
             3, "El nombre debe tener al menos 3 caracteres",
             100, "El nombre no puede tener mas de 100 caracteres")

ProyectoValidator_validate_ubicacion(data) ==
    Longitud(data, "ubicacion", TRUE, "La ubicacion es obligatoria",
             5, "La ubicacion debe tener al menos 5 caracteres",
             200, "La ubicacion no puede tener mas de 200 caracteres")

\* Mutant: equal dates are refused (>= for >)
ProyectoValidator_validate_fechas_Estricto(data) ==
    LET fecha_inicio == Get(data, "fecha_inicio")
        fecha_finalizacion == Get(data, "fecha_finalizacion")
        inicio == IF fecha_inicio.t = "str" THEN fromisoformat(fecha_inicio.cs)
                  ELSE fecha_inicio
        fin == IF fecha_finalizacion.t = "str" THEN fromisoformat(fecha_finalizacion.cs)
               ELSE fecha_finalizacion
    IN IF ~(Truthy(fecha_inicio) /\ Truthy(fecha_finalizacion)) THEN NoError
       ELSE IF inicio.t = "None" THEN AddError("fecha_inicio", "Formato de fecha invalido")
       ELSE IF fin.t = "None" THEN AddError("fecha_finalizacion", "Formato de fecha invalido")
       ELSE IF inicio.t # "date" \/ fin.t # "date" THEN Raise("TypeError")
       ELSE IF DateGt(inicio.d, fin.d) \/ inicio.d = fin.d
       THEN AddError("fecha_finalizacion",
                     "La fecha de finalizacion debe ser posterior a la fecha de inicio")
       ELSE NoError

\* ProyectoValidator._validate_fechas: nothing is checked unless both dates
\* are given; a string is parsed, and a string that does not parse is a format
\* error that ends the check; then inicio > fin is an error.  The comparison
\* is defined on two dates only.
ProyectoValidator_validate_fechas(data) ==
    LET fecha_inicio == Get(data, "fecha_inicio")
        fecha_finalizacion == Get(data, "fecha_finalizacion")
        inicio == IF fecha_inicio.t = "str" THEN fromisoformat(fecha_inicio.cs)
                  ELSE fecha_inicio
        fin == IF fecha_finalizacion.t = "str" THEN fromisoformat(fecha_finalizacion.cs)
               ELSE fecha_finalizacion
    IN IF ~(Truthy(fecha_inicio) /\ Truthy(fecha_finalizacion)) THEN NoError
       ELSE IF inicio.t = "None" THEN AddError("fecha_inicio", "Formato de fecha invalido")
       ELSE IF fin.t = "None" THEN AddError("fecha_finalizacion", "Formato de fecha invalido")
       ELSE IF inicio.t # "date" \/ fin.t # "date" THEN Raise("TypeError")
       ELSE IF DateGt(inicio.d, fin.d)
       THEN AddError("fecha_finalizacion",
                     "La fecha de finalizacion debe ser posterior a la fecha de inicio")
       ELSE NoError

ProyectoValidator_validate_estado(data) ==
    LET estado == Get(data, "estado") IN
    IF Truthy(estado)
       /\ ~InList(estado, {"Planificación", "En Construcción", "Terminado", "Cancelado"})
    THEN AddError("estado", "El estado debe ser uno de")
    ELSE NoError

ProyectoValidator_validate_codigo(data) ==
    Longitud(data, "codigo", FALSE, "",
             5, "El codigo debe tener al menos 5 caracteres",
             20, "El codigo no puede tener mas de 20 caracteres")

ProyectoValidator_validate(data) ==
    Then(ProyectoValidator_validate_nombre(data),
    Then(ProyectoValidator_validate_ubicacion(data),
    Then(ProyectoValidator_validate_fechas(data),
    Then(ProyectoValidator_validate_estado(data),
         ProyectoValidator_validate_codigo(data)))))

(***************************************************************************)
(* A validator object: its class, its data and its error list              *)
(***************************************************************************)
\* self._validate() of the validator's class
Validate(cls, data) ==
    CASE cls = "UnidadValidator" -> UnidadValidator_validate(data)
      [] cls = "UsuarioValidator" -> UsuarioValidator_validate(data)
      [] cls = "ProyectoValidator" -> ProyectoValidator_validate(data)

\* XValidator(data): BaseValidator.__init__ sets errors = []
NewValidator(cls, data) == [cls |-> cls, data |-> data, errors |-> <<>>]

\* Mutant: is_valid does not clear the error list
is_valid_SinReset(validator) ==
    LET r == Validate(validator.cls, validator.data)
        errors == validator.errors \o r.errors
    IN [validator |-> [validator EXCEPT !.errors = errors],
        raised |-> r.raised,
        ret |-> Len(errors) = 0]

\* BaseValidator.is_valid: "self.errors = []; self._validate();
\* return len(self.errors) == 0"; ret is meaningful when nothing was raised
is_valid(validator) ==
    LET r == Validate(validator.cls, validator.data) IN
    [validator |-> [validator EXCEPT !.errors = r.errors],
     raised |-> r.raised,
     ret |-> Len(r.errors) = 0]

(***************************************************************************)
(* The API layer: permissions (rest_framework.permissions), the body of a  *)
(* request turned into keyword arguments, and the responses                *)
(***************************************************************************)
\* request.user: anonymous, an authenticated user, an authenticated member of
\* the staff
Anonimo == [is_authenticated |-> FALSE, is_staff |-> FALSE]
NoAdmin == [is_authenticated |-> TRUE, is_staff |-> FALSE]
Admin == [is_authenticated |-> TRUE, is_staff |-> TRUE]
Requesters == {Anonimo, NoAdmin, Admin}

\* AllowAny / IsAuthenticated / IsAdminUser .has_permission
has_permission(permission, user) ==
    CASE permission = "AllowAny" -> TRUE
      [] permission = "IsAuthenticated" -> user.is_authenticated
      [] permission = "IsAdminUser" -> user.is_authenticated /\ user.is_staff

\* UnidadPropiedadViewSet.get_permissions (ProyectoInmobiliarioViewSet has the
\* same): the four actions listed require IsAdminUser, every other action
\* falls back to permission_classes = [IsAuthenticated]
UnidadPropiedadViewSet_get_permissions(action) ==
    IF action \in {"create", "update", "partial_update", "destroy"}
    THEN "IsAdminUser"
    ELSE "IsAuthenticated"

ProyectoInmobiliarioViewSet_get_permissions(action) ==
    IF action \in {"create", "update", "partial_update", "destroy"}
    THEN "IsAdminUser"
    ELSE "IsAuthenticated"

\* UsuarioViewSet.get_permissions and UsuarioViewSetV2.get_permissions
UsuarioViewSet_get_permissions(action) ==
    IF action = "create" THEN "AllowAny"
    ELSE IF action \in {"update", "partial_update", "destroy"} THEN "IsAdminUser"
    ELSE "IsAuthenticated"

\* The characters of a string joined into the string
RECURSIVE Join(_)
Join(cs) == IF cs = <<>> THEN "" ELSE Head(cs) \o Join(Tail(cs))

\* The position of the first '@' of cs (Len(cs) + 1 when there is none)
RECURSIVE Arroba(_, _)
Arroba(cs, i) == IF i > Len(cs) \/ cs[i] = "@" THEN i ELSE Arroba(cs, i + 1)

\* The address written by the characters cs
ToEmail(cs) ==
    LET at == Arroba(cs, 1) IN
    Email(Join(SubSeq(cs, 1, at - 1)), Join(SubSeq(cs, at + 1, Len(cs))))

\* The Python value passed on as a keyword argument, in the form the tables
\* hold it
Untag(x) ==
    CASE x.t = "None" -> NULL
      [] x.t = "int" -> x.n
      [] x.t = "bool" -> x.b
      [] x.t = "str" -> IF "cs" \in DOMAIN x THEN Join(x.cs) ELSE x.s
      [] OTHER -> x

\* **request.data for a unit or a user
Kwargs(data) ==
    [k \in DOMAIN data |->
        IF k = "email" THEN ToEmail(data[k].cs) ELSE Untag(data[k])]

\* The tables, as one record
Db(us, uns, prs) == [usuarios |-> us, unidades |-> uns, proyectos |-> prs]

\* What a request did: the tables afterwards, the response (status and
\* body), whether the Service was called and whether a row was created
Out(db, status, body, service, created) ==
    [db |-> db, status |-> status, body |-> body, service |-> service,
     created |-> created]

\* Response bodies: the validator's error dict, {"error": ...} or
\* {"detail": ...}, the serialized row, or nothing
ErrorDict(dict) == [kind |-> "errors", errors |-> dict]
ErrorBody == [kind |-> "error"]
DataBody(id) == [kind |-> "data", id |-> id]
NoBody == [kind |-> "empty"]

\* APIView.permission_denied: NotAuthenticated (401) for a request without
\* credentials, PermissionDenied (403) otherwise
Denied(db, user) ==
    Out(db, IF user.is_authenticated THEN 403 ELSE 401, ErrorBody, FALSE, FALSE)

\* get_object() raises Http404
NotFound(db) == Out(db, 404, ErrorBody, FALSE, FALSE)

\* Response({"detail": ...})
DetailBody(detail) == [kind |-> "detail", detail |-> detail]

\* An exception no handler catches: APIExceptionMiddleware.process_exception
ServerError(db, service) == Out(db, 500, ErrorBody, service, FALSE)

(***************************************************************************)
(* views.py: UnidadPropiedadViewSet                                        *)
(***************************************************************************)
\* Mutant: create hands the body to the service without asking the validator
UnidadPropiedadViewSet_create_SinValidar(db, id, data) ==
    LET r == UnidadRepository_create(db.unidades, db.usuarios, id, Kwargs(data)) IN
    IF r.res = "ok"
    THEN Out([db EXCEPT !.unidades = r.db], 201, DataBody(id), TRUE, TRUE)
    ELSE ServerError(db, TRUE)

\* UnidadPropiedadViewSet.create
UnidadPropiedadViewSet_create(db, id, data) ==
    LET v == is_valid(NewValidator("UnidadValidator", data)) IN
    IF v.raised # "" THEN ServerError(db, FALSE)
    ELSE IF ~v.ret
    THEN Out(db, 400, ErrorDict(get_error_dict(v.validator.errors)), FALSE, FALSE)
    ELSE LET r == UnidadRepository_create(db.unidades, db.usuarios, id, Kwargs(data)) IN
         IF r.res = "ok"
         THEN Out([db EXCEPT !.unidades = r.db], 201, DataBody(id), TRUE, TRUE)
         ELSE ServerError(db, TRUE)

\* UnidadPropiedadViewSet.update (partial_update calls it too)
UnidadPropiedadViewSet_update(db, pk, data) ==
    IF ~Stored(db.unidades, pk) THEN NotFound(db)
    ELSE LET v == is_valid(NewValidator("UnidadValidator", data)) IN
         IF v.raised # "" THEN ServerError(db, FALSE)
         ELSE IF ~v.ret
         THEN Out(db, 400, ErrorDict(get_error_dict(v.validator.errors)), FALSE, FALSE)
         ELSE LET r == BaseService_update(db.unidades, db.usuarios, pk, Kwargs(data)) IN
              IF r.res = "ok"
              THEN Out([db EXCEPT !.unidades = r.db], 200, DataBody(pk), TRUE, FALSE)
              ELSE ServerError(db, TRUE)

\* UnidadPropiedadViewSet.destroy: service.delete(pk), then 204 whether or
\* not a row was there
UnidadPropiedadViewSet_destroy(db, pk) ==
    Out([db EXCEPT !.unidades = IF Stored(db.unidades, pk)
                                 THEN Remove(db.unidades, pk)
                                 ELSE db.unidades],
        204, NoBody, TRUE, FALSE)

\* exceptions.py: default_detail and default_code of the business-rule
\* errors; APIException.__str__ returns the detail.  The message of any other
\* exception is represented by the name of the exception.
default_detail(exc) ==
    CASE exc = "UnidadNoDisponibleError" ->
            "La unidad no esta disponible para esta operacion."
      [] exc = "ClienteNoValidoError" -> "El cliente no es valido para esta operacion."
      [] OTHER -> exc

default_code(exc) ==
    CASE exc = "UnidadNoDisponibleError" -> "unidad_no_disponible"
      [] exc = "ClienteNoValidoError" -> "cliente_no_valido"
      [] OTHER -> "error"

\* The body {"error": message}
ErrorMessage(message) == [kind |-> "error", error |-> message]

\* "except Exception as e: return Response({"error": str(e)}, status=400)"
ExceptionBody(exc) == ErrorMessage(default_detail(exc))

\* UnidadPropiedadViewSet.asignar_cliente
UnidadPropiedadViewSet_asignar_cliente(db, pk, data) ==
    IF ~Truthy(Get(data, "cliente_id"))
    THEN Out(db, 400, ErrorMessage("Se requiere el ID del cliente"), FALSE, FALSE)
    ELSE LET r == AsignarCliente(db.unidades, db.usuarios, pk, Untag(data.cliente_id)) IN
         IF r.res = "ok"
         THEN Out([db EXCEPT !.unidades = r.db], 200, DataBody(pk), TRUE, FALSE)
         ELSE Out(db, 400, ExceptionBody(r.res), TRUE, FALSE)

\* UnidadPropiedadViewSet.marcar_como_vendida
UnidadPropiedadViewSet_marcar_como_vendida(db, pk) ==
    LET r == MarcarComoVendida(db.unidades, db.usuarios, pk) IN
    IF r.res = "ok"
    THEN Out([db EXCEPT !.unidades = r.db], 200, DataBody(pk), TRUE, FALSE)
    ELSE Out(db, 400, ExceptionBody(r.res), TRUE, FALSE)

\* The handler of an action of the viewset
UnidadPropiedadViewSet_handler(action, db, id, pk, data) ==
    CASE action = "create" -> UnidadPropiedadViewSet_create(db, id, data)
      [] action \in {"update", "partial_update"} ->
            UnidadPropiedadViewSet_update(db, pk, data)
      [] action = "destroy" -> UnidadPropiedadViewSet_destroy(db, pk)
      [] action = "asignar_cliente" ->
            UnidadPropiedadViewSet_asignar_cliente(db, pk, data)
      [] action = "marcar_como_vendida" ->
            UnidadPropiedadViewSet_marcar_como_vendida(db, pk)

\* APIView.dispatch: initial() checks the permissions of the action, then the
\* handler runs
UnidadPropiedadViewSet_dispatch(action, user, db, id, pk, data) ==
    IF ~has_permission(UnidadPropiedadViewSet_get_permissions(action), user)
    THEN Denied(db, user)
    ELSE UnidadPropiedadViewSet_handler(action, db, id, pk, data)

(***************************************************************************)
(* views.py and api/v1/views.py: UsuarioViewSet                            *)
(***************************************************************************)
\* UsuarioViewSet.create
UsuarioViewSet_create(db, id, data) ==
    LET v == is_valid(NewValidator("UsuarioValidator", data)) IN
    IF v.raised # "" THEN ServerError(db, FALSE)
    ELSE IF ~v.ret
    THEN Out(db, 400, ErrorDict(get_error_dict(v.validator.errors)), FALSE, FALSE)
    ELSE LET r == UsuarioService_create(db.usuarios, id, Kwargs(data)) IN
         IF r.res = "ok"
         THEN Out([db EXCEPT !.usuarios = r.db], 201, DataBody(id), TRUE, TRUE)
         ELSE IF r.res = "ValueError" THEN Out(db, 400, ErrorBody, TRUE, FALSE)
         ELSE ServerError(db, TRUE)

\* UsuarioViewSet.update (partial_update calls it too)
UsuarioViewSet_update(db, pk, data) ==
    IF ~Stored(db.usuarios, pk) THEN NotFound(db)
    ELSE LET v == is_valid(NewValidator("UsuarioValidator", data)) IN
         IF v.raised # "" THEN ServerError(db, FALSE)
         ELSE IF ~v.ret
         THEN Out(db, 400, ErrorDict(get_error_dict(v.validator.errors)), FALSE, FALSE)
         ELSE LET r == UsuarioService_update(db.usuarios, pk, Kwargs(data)) IN
              IF r.res = "ok"
              THEN Out([db EXCEPT !.usuarios = r.db], 200, DataBody(pk), TRUE, FALSE)
              ELSE IF r.res = "ValueError" THEN Out(db, 400, ErrorBody, TRUE, FALSE)
              ELSE ServerError(db, TRUE)

\* Usuario.delete(): the row goes and the units of the client keep no client
\* (on_delete=SET_NULL)
UsuarioDeleteRow(db, pk) ==
    [db EXCEPT !.usuarios = Remove(db.usuarios, pk),
               !.unidades = SetNullCliente(db.unidades, pk)]

\* UsuarioViewSet.destroy: service.delete(pk), then 204 whether or not a row
\* was there
UsuarioViewSet_destroy(db, pk) ==
    Out(IF Stored(db.usuarios, pk) THEN UsuarioDeleteRow(db, pk) ELSE db,
        204, NoBody, TRUE, FALSE)

(***************************************************************************)
(* api/v2/views.py: UsuarioViewSetV2, serializers_v2.py                    *)
(***************************************************************************)
\* UsuarioSerializerV2._validate_chilean_rut: re.match(r'^\d{7,8}-[\dkK]$')
validate_chilean_rut(cs) ==
    LET n == Len(cs) IN
    /\ n \in {9, 10}
    /\ AllIn(cs, 1, n - 2, Digits)
    /\ cs[n - 1] = "-"
    /\ cs[n] \in Digits \cup {"k", "K"}

\* UsuarioSerializerV2(instance, data, partial).is_valid(): the required
\* fields of the model unless partial, validate_rut, the unique validators of
\* rut and email (the instance excluded) and the choices of role
UsuarioSerializerV2_is_valid(us, pk, data, partial) ==
    LET attrs == Kwargs(data) IN
    /\ partial \/ {"rut", "email", "first_name", "last_name"} \subseteq DOMAIN data
    /\ "rut" \in DOMAIN data =>
          /\ validate_chilean_rut(data.rut.cs)
          /\ \A k \in (DOMAIN us) \ {pk} : us[k].rut # attrs.rut
    /\ "email" \in DOMAIN data =>
          \A k \in (DOMAIN us) \ {pk} : us[k].email # attrs.email
    /\ "role" \in DOMAIN data => attrs.role \in ROLE_CHOICES

\* UsuarioViewSetV2.update: get_object, serializer.is_valid(raise_exception),
\* perform_update (ModelSerializer.update: setattr of each validated field,
\* then save)
UsuarioViewSetV2_update(db, pk, data, partial) ==
    IF ~Stored(db.usuarios, pk) THEN NotFound(db)
    ELSE IF ~UsuarioSerializerV2_is_valid(db.usuarios, pk, data, partial)
    THEN Out(db, 400, ErrorBody, FALSE, FALSE)
    ELSE LET r == UsuarioSave(db.usuarios, pk, SetAttrs(db.usuarios[pk], Kwargs(data))) IN
         IF r.res = "ok"
         THEN Out([db EXCEPT !.usuarios = r.db], 200, DataBody(pk), FALSE, FALSE)
         ELSE ServerError(db, FALSE)

\* "instance.is_active = b; instance.save()"
SetActive(db, pk, b) ==
    [db EXCEPT !.usuarios = Put(db.usuarios, pk, [db.usuarios[pk] EXCEPT !.is_active = b])]

\* str.lower() of the value of a query parameter
lower(s) == IF s \in {"TRUE", "True"} THEN "true" ELSE s

\* Mutant: destroy deletes the row whatever soft_delete says
UsuarioViewSetV2_destroy_Borra(db, pk, query) ==
    IF ~Stored(db.usuarios, pk) THEN NotFound(db)
    ELSE Out(UsuarioDeleteRow(db, pk), 204, NoBody, FALSE, FALSE)

\* UsuarioViewSetV2.destroy: query_params.get('soft_delete', 'true').lower()
\* == 'true' (the default) marks the user inactive, otherwise the row is
\* deleted
UsuarioViewSetV2_destroy(db, pk, query) ==
    IF ~Stored(db.usuarios, pk) THEN NotFound(db)
    ELSE IF "soft_delete" \notin DOMAIN query \/ lower(query.soft_delete) = "true"
    THEN Out(SetActive(db, pk, FALSE), 200, DetailBody("Usuario marcado como inactivo."),
             FALSE, FALSE)
    ELSE Out(UsuarioDeleteRow(db, pk), 204, NoBody, FALSE, FALSE)

\* UsuarioViewSetV2.activar
UsuarioViewSetV2_activar(db, pk) ==
    IF ~Stored(db.usuarios, pk) THEN NotFound(db)
    ELSE IF db.usuarios[pk].is_active THEN Out(db, 400, ErrorBody, FALSE, FALSE)
    ELSE Out(SetActive(db, pk, TRUE), 200, DataBody(pk), FALSE, FALSE)

\* UsuarioViewSetV2.desactivar
UsuarioViewSetV2_desactivar(db, pk) ==
    IF ~Stored(db.usuarios, pk) THEN NotFound(db)
    ELSE IF ~db.usuarios[pk].is_active THEN Out(db, 400, ErrorBody, FALSE, FALSE)
    ELSE Out(SetActive(db, pk, FALSE), 200, DataBody(pk), FALSE, FALSE)

\* The handler of an action of the user viewset of a version of the API
UsuarioViewSet_handler(version, action, db, id, pk, data) ==
    CASE version = "v1" /\ action = "create" -> UsuarioViewSet_create(db, id, data)
      [] version = "v1" /\ action \in {"update", "partial_update"} ->
            UsuarioViewSet_update(db, pk, data)
      [] version = "v1" /\ action = "destroy" -> UsuarioViewSet_destroy(db, pk)
      [] version = "v2" /\ action \in {"update", "partial_update"} ->
            UsuarioViewSetV2_update(db, pk, data, action = "partial_update")
      [] version = "v2" /\ action = "destroy" -> UsuarioViewSetV2_destroy(db, pk, data)
      [] version = "v2" /\ action = "activar" -> UsuarioViewSetV2_activar(db, pk)
      [] version = "v2" /\ action = "desactivar" -> UsuarioViewSetV2_desactivar(db, pk)

\* APIView.dispatch: both versions have the same get_permissions
UsuarioViewSet_dispatch(version, action, user, db, id, pk, data) ==
    IF ~has_permission(UsuarioViewSet_get_permissions(action), user)
    THEN Denied(db, user)
    ELSE UsuarioViewSet_handler(version, action, db, id, pk, data)

(***************************************************************************)
(* models.py: ProyectoInmobiliario; proyecto_service.py,                   *)
(* proyecto_repository.py; views.py: ProyectoInmobiliarioViewSet           *)
(***************************************************************************)
\* A project before its fields are set; estado defaults to 'Planificacion'
ProyectoDefaults ==
    [nombre |-> "", ubicacion |-> "", fecha_inicio |-> NoneV,
     fecha_finalizacion |-> NoneV, estado |-> "Planificacion", codigo |-> ""]

\* The two date fields of the model
ProyectoFechas == {"fecha_inicio", "fecha_finalizacion"}

\* **request.data for a project: the dates stay as they were sent
ProyectoKwargs(data) ==
    [k \in DOMAIN data |-> IF k \in ProyectoFechas THEN data[k] ELSE Untag(data[k])]

\* DateField.to_python: None and a date as they are, a string parsed; NoneV
\* with ok FALSE stands for ValidationError
to_python(x) ==
    CASE x.t = "None" -> [ok |-> TRUE, value |-> NoneV]
      [] x.t = "date" -> [ok |-> TRUE, value |-> x]
      [] x.t = "str" /\ "cs" \in DOMAIN x ->
            [ok |-> fromisoformat(x.cs).t = "date", value |-> fromisoformat(x.cs)]
      [] OTHER -> [ok |-> FALSE, value |-> NoneV]

\* ProyectoInmobiliario.save(): the dates are converted, fecha_inicio is NOT
\* NULL, codigo is unique
ProyectoSave(prs, id, row) ==
    LET inicio == to_python(row.fecha_inicio)
        fin == to_python(row.fecha_finalizacion)
    IN IF ~inicio.ok \/ ~fin.ok THEN [db |-> prs, res |-> "ValidationError"]
       ELSE IF \/ inicio.value.t = "None"
               \/ \E k \in (DOMAIN prs) \ {id} : prs[k].codigo = row.codigo
       THEN [db |-> prs, res |-> "IntegrityError"]
       ELSE [db |-> Put(prs, id, [row EXCEPT !.fecha_inicio = inicio.value,
                                             !.fecha_finalizacion = fin.value]),
             res |-> "ok"]

\* ProyectoService.create: a codigo is generated when none is given (from
\* the name and a fresh uuid, here from the fresh id), then
\* ProyectoRepository.create
ProyectoService_create(prs, id, kwargs) ==
    LET codigo == IF "codigo" \in DOMAIN kwargs THEN kwargs.codigo
                  ELSE "GEN-" \o ToString(id)
    IN ProyectoSave(prs, id, [NewRow(ProyectoDefaults, kwargs) EXCEPT !.codigo = codigo])

\* BaseService.update with ProyectoRepository.update: None for a missing
\* project, else setattr of every keyword and save
ProyectoService_update(prs, id, kwargs) ==
    IF ~Stored(prs, id) THEN [db |-> prs, res |-> "None"]
    ELSE ProyectoSave(prs, id, SetAttrs(prs[id], kwargs))

\* ProyectoInmobiliarioViewSet.create
ProyectoInmobiliarioViewSet_create(db, id, data) ==
    LET v == is_valid(NewValidator("ProyectoValidator", data)) IN
    IF v.raised # "" THEN ServerError(db, FALSE)
    ELSE IF ~v.ret
    THEN Out(db, 400, ErrorDict(get_error_dict(v.validator.errors)), FALSE, FALSE)
    ELSE LET r == ProyectoService_create(db.proyectos, id, ProyectoKwargs(data)) IN
         IF r.res = "ok"
         THEN Out([db EXCEPT !.proyectos = r.db], 201, DataBody(id), TRUE, TRUE)
         ELSE ServerError(db, TRUE)

\* ProyectoInmobiliarioViewSet.update (partial_update calls it too): the
\* validator is given the body of the request
ProyectoInmobiliarioViewSet_update(db, pk, data) ==
    IF ~Stored(db.proyectos, pk) THEN NotFound(db)
    ELSE LET v == is_valid(NewValidator("ProyectoValidator", data)) IN
         IF v.raised # "" THEN ServerError(db, FALSE)
         ELSE IF ~v.ret
         THEN Out(db, 400, ErrorDict(get_error_dict(v.validator.errors)), FALSE, FALSE)
         ELSE LET r == ProyectoService_update(db.proyectos, pk, ProyectoKwargs(data)) IN
              IF r.res = "ok"
              THEN Out([db EXCEPT !.proyectos = r.db], 200, DataBody(pk), TRUE, FALSE)
              ELSE ServerError(db, TRUE)

\* ProyectoInmobiliarioViewSet.destroy: service.delete(pk), then 204 whether
\* or not a row was there
ProyectoInmobiliarioViewSet_destroy(db, pk) ==
    Out([db EXCEPT !.proyectos = IF Stored(db.proyectos, pk)
                                  THEN Remove(db.proyectos, pk)
                                  ELSE db.proyectos],
        204, NoBody, TRUE, FALSE)

\* The handler of an action of the viewset
ProyectoInmobiliarioViewSet_handler(action, db, id, pk, data) ==
    CASE action = "create" -> ProyectoInmobiliarioViewSet_create(db, id, data)
      [] action \in {"update", "partial_update"} ->
            ProyectoInmobiliarioViewSet_update(db, pk, data)
      [] action = "destroy" -> ProyectoInmobiliarioViewSet_destroy(db, pk)

\* APIView.dispatch
ProyectoInmobiliarioViewSet_dispatch(action, user, db, id, pk, data) ==
    IF ~has_permission(ProyectoInmobiliarioViewSet_get_permissions(action), user)
    THEN Denied(db, user)
    ELSE ProyectoInmobiliarioViewSet_handler(action, db, id, pk, data)

(***************************************************************************)
(* The requests the model draws                                            *)
(***************************************************************************)
\* UnidadValidator._validate_estado: estados_validos
estados_validos == {"Disponible", "Reservado", "Vendido", "No Disponible"}

Ruts == <<"11111111-1", "22222222-2", "33333333-3">>
Locales == <<"ana", "luis", "eva">>

\* The n-th person who registers: an e-mail, a RUT and a username of their own
Persona(n) ==
    [email |-> Email(Locales[n], "x.cl"), rut |-> Ruts[n], username |-> Locales[n]]

\* The body of a user-create request of person n with a role
PersonaKwargs(n, role) ==
    [email |-> Persona(n).email, rut |-> Persona(n).rut,
     username |-> Persona(n).username, role |-> role, password |-> "Secreta123"]

\* The bodies UnidadValidator accepts (every required field present and
\* valid), with or without a cliente_id
UnidadKwargsSinCliente ==
    [proyecto_id : Proyectos, tipo_unidad : {"Departamento"},
     precio_venta : {5000}, estado : estados_validos]
UnidadKwargsConCliente ==
    [proyecto_id : Proyectos, tipo_unidad : {"Departamento"},
     precio_venta : {5000}, estado : estados_validos,
     cliente_id : {NULL} \cup UsuarioIds]
UnidadKwargs == UnidadKwargsSinCliente \cup UnidadKwargsConCliente

(***************************************************************************)
(* State machine: every service call runs to completion                    *)
(***************************************************************************)
Idle == [at |-> "idle"]

Init ==
    /\ usuarios = <<>>
    /\ unidades = <<>>
    /\ nextUsuario = 1
    /\ nextUnidad = 1
    /\ proyectos = <<>>
    /\ nextProyecto = 1
    /\ last = Call("none", NULL, NULL, "none")
    /\ pc = [p \in Procs |-> Idle]

\* UsuarioService.create(**kwargs); the new row gets a fresh id
UsuarioCreate(kwargs) ==
    LET r == UsuarioService_create(usuarios, nextUsuario, kwargs) IN
    /\ nextUsuario \in UsuarioIds
    /\ usuarios' = r.db
    /\ nextUsuario' = IF r.res = "ok" THEN nextUsuario + 1 ELSE nextUsuario
    /\ last' = Call("UsuarioService.create", nextUsuario, NULL, r.res)
    /\ UNCHANGED <<unidades, nextUnidad, proyectos, nextProyecto, pc>>

\* UsuarioService.delete(id) (BaseService.delete): False when there is no
\* row; else instance.delete(), which nulls the cliente of the user's units
UsuarioDelete(id) ==
    /\ IF Stored(usuarios, id)
       THEN /\ usuarios' = Remove(usuarios, id)
            /\ unidades' = SetNullCliente(unidades, id)
            /\ last' = Call("UsuarioService.delete", id, NULL, "True")
       ELSE /\ UNCHANGED <<usuarios, unidades>>
            /\ last' = Call("UsuarioService.delete", id, NULL, "False")
    /\ UNCHANGED <<nextUsuario, nextUnidad, proyectos, nextProyecto, pc>>

\* UnidadService.create(**kwargs) (BaseService.create)
UnidadCreate(kwargs) ==
    LET r == UnidadRepository_create(unidades, usuarios, nextUnidad, kwargs) IN
    /\ nextUnidad \in UnidadIds
    /\ unidades' = r.db
    /\ nextUnidad' = IF r.res = "ok" THEN nextUnidad + 1 ELSE nextUnidad
    /\ last' = Call("UnidadService.create", nextUnidad, NULL, r.res)
    /\ UNCHANGED <<usuarios, nextUsuario, proyectos, nextProyecto, pc>>

\* UnidadService.update(id, **kwargs) (BaseService.update)
UnidadUpdate(id, kwargs) ==
    LET r == BaseService_update(unidades, usuarios, id, kwargs) IN
    /\ unidades' = r.db
    /\ last' = Call("UnidadService.update", id, NULL, r.res)
    /\ UNCHANGED <<usuarios, nextUsuario, nextUnidad, proyectos, nextProyecto, pc>>

\* UnidadService.delete(id) (BaseService.delete)
UnidadDelete(id) ==
    /\ IF Stored(unidades, id)
       THEN /\ unidades' = Remove(unidades, id)
            /\ last' = Call("UnidadService.delete", id, NULL, "True")
       ELSE /\ UNCHANGED unidades
            /\ last' = Call("UnidadService.delete", id, NULL, "False")
    /\ UNCHANGED <<usuarios, nextUsuario, nextUnidad, proyectos, nextProyecto, pc>>

\* UnidadService.asignar_cliente(unidad_id, cliente_id)
asignar_cliente(unidad_id, cliente_id) ==
    LET r == AsignarCliente(unidades, usuarios, unidad_id, cliente_id) IN
    /\ unidades' = r.db
    /\ last' = Call("asignar_cliente", unidad_id, cliente_id, r.res)
    /\ UNCHANGED <<usuarios, nextUsuario, nextUnidad, proyectos, nextProyecto, pc>>

\* UnidadService.marcar_como_vendida(unidad_id)
marcar_como_vendida(unidad_id) ==
    LET r == MarcarComoVendida(unidades, usuarios, unidad_id) IN
    /\ unidades' = r.db
    /\ last' = Call("marcar_como_vendida", unidad_id, NULL, r.res)
    /\ UNCHANGED <<usuarios, nextUsuario, nextUnidad, proyectos, nextProyecto, pc>>

Next ==
    \/ \E role \in ROLE_CHOICES :
          /\ nextUsuario \in UsuarioIds
          /\ UsuarioCreate(PersonaKwargs(nextUsuario, role))
    \/ \E id \in UsuarioIds : UsuarioDelete(id)
    \/ \E kwargs \in UnidadKwargs : UnidadCreate(kwargs)
    \/ \E id \in UnidadIds, kwargs \in UnidadKwargs : UnidadUpdate(id, kwargs)
    \/ \E id \in UnidadIds : UnidadDelete(id)
    \/ \E id \in UnidadIds, cliente_id \in UsuarioIds : asignar_cliente(id, cliente_id)
    \/ \E id \in UnidadIds : marcar_como_vendida(id)

Spec == Init /\ [][Next]_vars

(***************************************************************************)
(* Properties of the unit state machine (checked under Spec)               *)
(***************************************************************************)
\* The step is a call of op
Did(op) == last'.op = op

\* Before the step, unit id is stored with estado e
Was(id, e) == Stored(unidades, id) /\ unidades[id].estado = e

C2_RejectedAsignarKeepsUnit ==
    [][(/\ Did("asignar_cliente")
        /\ last'.res = "UnidadNoDisponibleError"
        /\ Stored(unidades, last'.id))
       => /\ unidades' = unidades
          /\ unidades'[last'.id].estado = unidades[last'.id].estado
          /\ unidades'[last'.id].cliente_id = unidades[last'.id].cliente_id]_vars

\* C2 witness: a unit reserved for one client has rejected a reservation for
\* another client
C2_Witness ==
    /\ last.op = "asignar_cliente"
    /\ last.res = "UnidadNoDisponibleError"
    /\ Stored(unidades, last.id)
    /\ unidades[last.id].estado = "Reservado"
    /\ unidades[last.id].cliente_id # NULL
    /\ unidades[last.id].cliente_id # last.cliente
    /\ Stored(usuarios, last.cliente)

\* C3: marcar_como_vendida succeeds if and only if the stored unit is
\* 'Reservado' with a client; on success it is 'Vendido' with the same
\* client; on a 'Disponible' or 'Vendido' unit it raises
\* UnidadNoDisponibleError and leaves the table unchanged.
C3_MarcarContract ==
    [][Did("marcar_como_vendida") =>
        LET u == last'.id IN
        /\ (last'.res = "ok") <=> (Was(u, "Reservado") /\ unidades[u].cliente_id # NULL)
        /\ last'.res = "ok" =>
             /\ Stored(unidades', u)
             /\ unidades'[u].estado = "Vendido"
             /\ unidades'[u].cliente_id = unidades[u].cliente_id
        /\ (Was(u, "Disponible") \/ Was(u, "Vendido")) =>
             /\ last'.res = "UnidadNoDisponibleError"
             /\ unidades' = unidades]_vars

\* C3 witness: a sale has succeeded on a unit that keeps its client
C3_Witness ==
    /\ last.op = "marcar_como_vendida"
    /\ last.res = "ok"
    /\ unidades[last.id].estado = "Vendido"
    /\ unidades[last.id].cliente_id # NULL

\* C4: marcar_como_vendida on a 'Reservado' unit without client raises
\* ClienteNoValidoError and leaves it 'Reservado'; on a unit that is not
\* 'Reservado' and has no client it raises UnidadNoDisponibleError.
C4_MarcarSinCliente ==
    [][Did("marcar_como_vendida") =>
        LET u == last'.id IN
        /\ (Was(u, "Reservado") /\ unidades[u].cliente_id = NULL) =>
             /\ last'.res = "ClienteNoValidoError"
             /\ unidades' = unidades
             /\ unidades'[u].estado = "Reservado"
        /\ (Stored(unidades, u) /\ ~Was(u, "Reservado") /\ unidades[u].cliente_id = NULL) =>
             last'.res = "UnidadNoDisponibleError"
        /\ last'.res = "ClienteNoValidoError" => Was(u, "Reservado")]_vars

\* C4 witness: a sale was refused with ClienteNoValidoError
C4_Witness ==
    /\ last.op = "marcar_como_vendida"
    /\ last.res = "ClienteNoValidoError"
    /\ unidades[last.id].estado = "Reservado"
    /\ unidades[last.id].cliente_id = NULL

\* C5 as stated: every stored unit that is 'Reservado' or 'Vendido' has a
\* client.
C5_ReservedHasClient ==
    \A k \in DOMAIN unidades :
        unidades[k].estado \in {"Reservado", "Vendido"} => unidades[k].cliente_id # NULL

\* C6 as stated: a 'Vendido' unit never changes estado again, and a
\* 'Reservado' unit never returns to 'Disponible'.
C6_ForwardOnly ==
    [][\A k \in (DOMAIN unidades) \cap (DOMAIN unidades') :
        /\ unidades[k].estado = "Vendido" => unidades'[k].estado = "Vendido"
        /\ unidades[k].estado = "Reservado" => unidades'[k].estado # "Disponible"]_vars

\* C8: on a 'Disponible' unit without client, asignar_cliente with the id of
\* a stored user succeeds and leaves it 'Reservado' with that client; a
\* marcar_como_vendida that follows succeeds and leaves it 'Vendido' with the
\* same client, and the statistics of its project then count the unit under
\* 'Vendido' and under no other estado.
C8_ReserveThenSell ==
    [][/\ (/\ Did("asignar_cliente")
           /\ Was(last'.id, "Disponible")
           /\ unidades[last'.id].cliente_id = NULL
           /\ Stored(usuarios, last'.cliente))
          => /\ last'.res = "ok"
             /\ unidades'[last'.id].estado = "Reservado"
             /\ unidades'[last'.id].cliente_id = last'.cliente
       /\ (/\ last.op = "asignar_cliente"
           /\ last.res = "ok"
           /\ Did("marcar_como_vendida")
           /\ last'.id = last.id)
          => LET u == last.id
                 con == get_estadisticas_por_proyecto(unidades', unidades'[u].proyecto_id)
                 sin == get_estadisticas_por_proyecto(Remove(unidades', u),
                                                      unidades'[u].proyecto_id)
             IN /\ last'.res = "ok"
                /\ unidades'[u].estado = "Vendido"
                /\ unidades'[u].cliente_id = last.cliente
                /\ CountOf(con.unidades_por_estado, "Vendido")
                     = CountOf(sin.unidades_por_estado, "Vendido") + 1
                /\ \A e \in (DOMAIN con.unidades_por_estado) \ {"Vendido"} :
                     con.unidades_por_estado[e] = CountOf(sin.unidades_por_estado, e)
                /\ con.total_unidades = sin.total_unidades + 1]_vars

\* C8 witness: the unit was reserved and then sold, and is counted as sold
C8_Witness ==
    /\ last.op = "marcar_como_vendida"
    /\ last.res = "ok"
    /\ unidades[last.id].estado = "Vendido"
    /\ CountOf(get_estadisticas_por_proyecto(unidades, unidades[last.id].proyecto_id)
                 .unidades_por_estado, "Vendido") >= 1

(***************************************************************************)
(* Concurrent requests on the unit table.  The code takes no lock and opens *)
(* no transaction: a request is a sequence of queries, and the queries of   *)
(* two requests interleave.                                                 *)
(***************************************************************************)
\* A finished request: what it returned or raised
Done(op, id, cliente, res) ==
    [at |-> "done", op |-> op, id |-> id, cliente |-> cliente, res |-> res]

Free(p) == pc[p].at \in {"idle", "done"}

\* asignar_cliente, lines 52-54: "unidad = self.get_by_id(unidad_id)" and the
\* estado check; a request that passes goes on to self.update(...)
AsignarBegin(p, unidad_id, cliente_id) ==
    /\ Free(p)
    /\ pc' = [pc EXCEPT ![p] =
                IF ~Stored(unidades, unidad_id) \/ unidades[unidad_id].estado # "Disponible"
                THEN Done("asignar_cliente", unidad_id, cliente_id, "UnidadNoDisponibleError")
                ELSE [at |-> "update", op |-> "asignar_cliente", id |-> unidad_id,
                      cliente |-> cliente_id,
                      kwargs |-> [cliente_id |-> cliente_id, estado |-> "Reservado"]]]
    /\ UNCHANGED <<usuarios, unidades, nextUsuario, nextUnidad, proyectos, nextProyecto, last>>

\* BaseService.update, lines 46-48: "instance = self.get_by_id(id)"
UpdateLoad(p) ==
    /\ pc[p].at = "update"
    /\ pc' = [pc EXCEPT ![p] =
                IF ~Stored(unidades, pc[p].id)
                THEN Done(pc[p].op, pc[p].id, pc[p].cliente, "None")
                ELSE [at |-> "save", op |-> pc[p].op, id |-> pc[p].id,
                      cliente |-> pc[p].cliente, kwargs |-> pc[p].kwargs,
                      instance |-> unidades[pc[p].id]]]
    /\ UNCHANGED <<usuarios, unidades, nextUsuario, nextUnidad, proyectos, nextProyecto, last>>

\* BaseService.update, line 51: repository.update(instance, **kwargs), which
\* saves every column of the instance that was read
UpdateSave(p) ==
    /\ pc[p].at = "save"
    /\ LET r == UnidadRepository_update(unidades, usuarios, pc[p].id,
                                        pc[p].instance, pc[p].kwargs)
       IN /\ unidades' = r.db
          /\ pc' = [pc EXCEPT ![p] = Done(pc[p].op, pc[p].id, pc[p].cliente, r.res)]
    /\ UNCHANGED <<usuarios, nextUsuario, nextUnidad, proyectos, nextProyecto, last>>

ConcUnidadNext ==
    \/ \E role \in ROLE_CHOICES :
          /\ nextUsuario \in UsuarioIds
          /\ UsuarioCreate(PersonaKwargs(nextUsuario, role))
    \/ \E kwargs \in UnidadKwargs : UnidadCreate(kwargs)
    \/ \E p \in Procs, id \in UnidadIds, cliente_id \in UsuarioIds :
          AsignarBegin(p, id, cliente_id)
    \/ \E p \in Procs : UpdateLoad(p)
    \/ \E p \in Procs : UpdateSave(p)

ConcUnidadSpec == Init /\ [][ConcUnidadNext]_vars

\* C7 as stated: of two asignar_cliente calls for different clients on the
\* same unit, at most one succeeds, the other raises UnidadNoDisponibleError,
\* and the stored cliente is the client of the call that succeeded.  (Under
\* ConcUnidadSpec nothing returns a unit to 'Disponible', so two calls that
\* both passed the estado check of one unit overlapped.)
C7_AsignarAtomic ==
    \A p \in Procs :
        (pc[p].at = "done" /\ pc[p].op = "asignar_cliente" /\ pc[p].res = "ok") =>
            /\ unidades[pc[p].id].cliente_id = pc[p].cliente
            /\ \A q \in Procs \ {p} :
                 (/\ pc[q].at = "done"
                  /\ pc[q].op = "asignar_cliente"
                  /\ pc[q].id = pc[p].id
                  /\ pc[q].cliente # pc[p].cliente
                  /\ Stored(usuarios, pc[q].cliente))
                 => pc[q].res = "UnidadNoDisponibleError"

(***************************************************************************)
(* Concurrent requests on the user table                                   *)
(***************************************************************************)
\* The addresses the model draws: two that differ only in the case of the
\* domain, and a third
Emails == {Email("ana", "x.cl"), Email("ana", "X.CL"), Email("luis", "x.cl")}

\* User-create bodies: any address with the RUT and username of person 1 or 2
ConcCreateKwargs ==
    {[email |-> e, rut |-> Ruts[n], username |-> Locales[n], password |-> "Secreta123"] :
        e \in Emails, n \in {1, 2}}

\* User-update bodies: a new address, or a new RUT
ConcUpdateKwargs ==
    {[email |-> e] : e \in Emails} \cup {[rut |-> Ruts[n]] : n \in {1, 2}}

FinishedU(op, res) == [at |-> "done", op |-> op, res |-> res]

\* UsuarioService.create, lines 39-42: the email query
CreateCheckEmail(p, kwargs) ==
    /\ Free(p)
    /\ pc' = [pc EXCEPT ![p] =
                IF EmailTaken(usuarios, kwargs)
                THEN FinishedU("UsuarioService.create", "ValueError")
                ELSE [at |-> "create_rut", kwargs |-> kwargs]]
    /\ UNCHANGED <<usuarios, unidades, nextUsuario, nextUnidad, proyectos, nextProyecto, last>>

\* UsuarioService.create, lines 44-52: the RUT query, then the role check
CreateCheckRut(p) ==
    /\ pc[p].at = "create_rut"
    /\ pc' = [pc EXCEPT ![p] =
                IF RutTaken(usuarios, pc[p].kwargs) \/ RoleRejected(pc[p].kwargs)
                THEN FinishedU("UsuarioService.create", "ValueError")
                ELSE [at |-> "create_insert", kwargs |-> pc[p].kwargs]]
    /\ UNCHANGED <<usuarios, unidades, nextUsuario, nextUnidad, proyectos, nextProyecto, last>>

\* UsuarioService.create, line 54: repository.create(**kwargs)
CreateInsert(p) ==
    /\ pc[p].at = "create_insert"
    /\ nextUsuario \in UsuarioIds
    /\ LET r == UsuarioRepository_create(usuarios, nextUsuario, pc[p].kwargs) IN
       /\ usuarios' = r.db
       /\ nextUsuario' = IF r.res = "ok" THEN nextUsuario + 1 ELSE nextUsuario
       /\ pc' = [pc EXCEPT ![p] = FinishedU("UsuarioService.create", r.res)]
    /\ UNCHANGED <<unidades, nextUnidad, proyectos, nextProyecto, last>>

\* UsuarioService.update, lines 61-63: "instance = self.get_by_id(id)"
UsuarioUpdateLoad(p, id, kwargs) ==
    /\ Free(p)
    /\ pc' = [pc EXCEPT ![p] =
                IF ~Stored(usuarios, id)
                THEN FinishedU("UsuarioService.update", "None")
                ELSE [at |-> "update_email", id |-> id, kwargs |-> kwargs,
                      instance |-> usuarios[id]]]
    /\ UNCHANGED <<usuarios, unidades, nextUsuario, nextUnidad, proyectos, nextProyecto, last>>

\* UsuarioService.update, lines 66-70: the email query, skipped when the
\* address is the one the instance has
UsuarioUpdateCheckEmail(p) ==
    /\ pc[p].at = "update_email"
    /\ pc' = [pc EXCEPT ![p] =
                IF /\ "email" \in DOMAIN pc[p].kwargs
                   /\ pc[p].kwargs.email # EmailVacio
                   /\ pc[p].kwargs.email # pc[p].instance.email
                   /\ get_by_email(usuarios, pc[p].kwargs.email) \ {pc[p].id} # {}
                THEN FinishedU("UsuarioService.update", "ValueError")
                ELSE [pc[p] EXCEPT !.at = "update_rut"]]
    /\ UNCHANGED <<usuarios, unidades, nextUsuario, nextUnidad, proyectos, nextProyecto, last>>

\* UsuarioService.update, lines 73-82: the RUT query, then the role check
UsuarioUpdateCheckRut(p) ==
    /\ pc[p].at = "update_rut"
    /\ pc' = [pc EXCEPT ![p] =
                IF \/ /\ TruthyStr(pc[p].kwargs, "rut")
                      /\ pc[p].kwargs.rut # pc[p].instance.rut
                      /\ get_by_rut(usuarios, pc[p].kwargs.rut) \ {pc[p].id} # {}
                   \/ RoleRejected(pc[p].kwargs)
                THEN FinishedU("UsuarioService.update", "ValueError")
                ELSE [pc[p] EXCEPT !.at = "update_save"]]
    /\ UNCHANGED <<usuarios, unidades, nextUsuario, nextUnidad, proyectos, nextProyecto, last>>

\* UsuarioService.update, line 85: repository.update(instance, **kwargs)
UsuarioUpdateSave(p) ==
    /\ pc[p].at = "update_save"
    /\ LET r == UsuarioRepository_update(usuarios, pc[p].id, pc[p].instance, pc[p].kwargs) IN
       /\ usuarios' = r.db
       /\ pc' = [pc EXCEPT ![p] = FinishedU("UsuarioService.update", r.res)]
    /\ UNCHANGED <<unidades, nextUsuario, nextUnidad, proyectos, nextProyecto, last>>

ConcUsuarioNext ==
    \/ \E p \in Procs, kwargs \in ConcCreateKwargs : CreateCheckEmail(p, kwargs)
    \/ \E p \in Procs : CreateCheckRut(p)
    \/ \E p \in Procs : CreateInsert(p)
    \/ \E p \in Procs, id \in UsuarioIds, kwargs \in ConcUpdateKwargs :
          UsuarioUpdateLoad(p, id, kwargs)
    \/ \E p \in Procs : UsuarioUpdateCheckEmail(p)
    \/ \E p \in Procs : UsuarioUpdateCheckRut(p)
    \/ \E p \in Procs : UsuarioUpdateSave(p)

ConcUsuarioSpec == Init /\ [][ConcUsuarioNext]_vars

\* C9: in every state reachable by interleaved user create and update
\* requests, no two stored users share an email and no two share a RUT.
C9_UniqueEmailRut ==
    \A a, b \in DOMAIN usuarios :
        a # b => /\ usuarios[a].email # usuarios[b].email
                 /\ usuarios[a].rut # usuarios[b].rut

\* C9 witness: two create requests had both passed the service's existence
\* checks before either wrote; one row is stored and the store refused the
\* other
C9_Witness ==
    \E p, q \in Procs :
        /\ p # q
        /\ pc[p].at = "create_insert"
        /\ pc[q] = FinishedU("UsuarioService.create", "IntegrityError")
        /\ \E k \in DOMAIN usuarios :
              \/ usuarios[k].email = normalize_email(pc[p].kwargs.email)
              \/ usuarios[k].rut = pc[p].kwargs.rut

(***************************************************************************)
(* The user service, every call run to completion                          *)
(***************************************************************************)
\* The keyword-argument dicts that pass key or leave it out
Opt(key, values) == {<<>>} \cup {[k \in {key} |-> v] : v \in values}

\* Bodies of user-create and user-update calls: an address and a RUT, and
\* optionally a username, a role (valid, empty or unknown) and a password
UsuarioKwargs ==
    {[email |-> e, rut |-> r] @@ u @@ ro @@ pw :
        e \in Emails, r \in {Ruts[1], Ruts[2]},
        u \in Opt("username", {"ana"}),
        ro \in Opt("role", {"", "Administrador", "Gerente"}),
        pw \in Opt("password", {"Secreta123"})}

\* The passwords the model draws
Passwords == {"Secreta123", "Nueva4567"}

\* Bodies of user-update calls: an address and a RUT, or one field alone
UsuarioUpdateKwargs ==
    {[email |-> e, rut |-> r] : e \in Emails, r \in {Ruts[1], Ruts[2]}}
    \cup {[email |-> e] : e \in Emails}
    \cup {[rut |-> r] : r \in {Ruts[1], Ruts[2]}}
    \cup {[username |-> "ana"]}
    \cup {[password |-> pw] : pw \in Passwords}
    \cup {[role |-> ro] : ro \in {"", "Administrador", "Gerente"}}

\* The outcome recorded for a call together with the arguments it was given
CallWith(op, id, res, kwargs) ==
    [op |-> op, id |-> id, cliente |-> NULL, res |-> res, kwargs |-> kwargs]

\* UsuarioService.update(id, **kwargs)
UsuarioUpdate(id, kwargs) ==
    LET r == UsuarioService_update(usuarios, id, kwargs) IN
    /\ usuarios' = r.db
    /\ last' = CallWith("UsuarioService.update", id, r.res, kwargs)
    /\ UNCHANGED <<unidades, nextUsuario, nextUnidad, proyectos, nextProyecto, pc>>

\* UsuarioService.cambiar_password(user_id, password_actual, password_nuevo)
cambiar_password(user_id, password_actual, password_nuevo) ==
    LET r == UsuarioService_cambiar_password(usuarios, user_id,
                                             password_actual, password_nuevo) IN
    /\ usuarios' = r.db
    /\ last' = CallWith("cambiar_password", user_id, r.res,
                        [password_actual |-> password_actual,
                         password_nuevo |-> password_nuevo])
    /\ UNCHANGED <<unidades, nextUsuario, nextUnidad, proyectos, nextProyecto, pc>>

UsuarioNext ==
    \/ \E kwargs \in UsuarioKwargs : UsuarioCreate(kwargs)
    \/ \E id \in UsuarioIds, kwargs \in UsuarioUpdateKwargs : UsuarioUpdate(id, kwargs)
    \/ \E id \in UsuarioIds : UsuarioDelete(id)

UsuarioSpec == Init /\ [][UsuarioNext]_vars

\* The call passes a role that is not one of Usuario.ROLE_CHOICES
RoleOutside(kwargs) == "role" \in DOMAIN kwargs /\ kwargs.role \notin ROLE_CHOICES

\* C10 as stated: UsuarioService.create with the email or the RUT of a
\* stored user, or with a role outside {'Administrador', 'Cliente'}, fails
\* with ValueError and leaves the stored users unchanged.
C10_CreateRejects ==
    [][\A kwargs \in UsuarioKwargs :
        (/\ UsuarioCreate(kwargs)
         /\ \/ get_by_email(usuarios, kwargs.email) # {}
            \/ get_by_rut(usuarios, kwargs.rut) # {}
            \/ RoleOutside(kwargs))
        => /\ last'.res = "ValueError"
           /\ usuarios' = usuarios]_vars

(***************************************************************************)
(* The accounts of the users: registration, update and change of password  *)
(***************************************************************************)
\* The bodies with which person n registers: without or with a password
CuentaCreateKwargs(n) ==
    {Persona(n)} \cup {Persona(n) @@ [password |-> pw] : pw \in Passwords}

\* Bodies of the updates of an account: the address and the RUT of person 1
\* or 2 in any pairing, an address in another case, or a new password
CuentaUpdateKwargs ==
    {[email |-> Persona(a).email, rut |-> Persona(b).rut] : a, b \in {1, 2}}
    \cup {[email |-> Email("ana", "X.CL")]}
    \cup {[password |-> pw] : pw \in Passwords}

CuentaNext ==
    \/ /\ nextUsuario \in UsuarioIds
       /\ \E kwargs \in CuentaCreateKwargs(nextUsuario) : UsuarioCreate(kwargs)
    \/ \E id \in UsuarioIds, kwargs \in CuentaUpdateKwargs : UsuarioUpdate(id, kwargs)
    \/ \E id \in UsuarioIds, actual \in Passwords, nuevo \in Passwords :
          cambiar_password(id, actual, nuevo)

CuentaSpec == Init /\ [][CuentaNext]_vars

\* The address or the RUT of kwargs is that of a stored user other than id
TakenByOther(us, id, kwargs) ==
    \/ "email" \in DOMAIN kwargs /\ get_by_email(us, kwargs.email) \ {id} # {}
    \/ "rut" \in DOMAIN kwargs /\ get_by_rut(us, kwargs.rut) \ {id} # {}

\* kwargs repeats the address and the RUT that user id has
RepeatsOwn(us, id, kwargs) ==
    /\ DOMAIN kwargs = {"email", "rut"}
    /\ kwargs.email = us[id].email
    /\ kwargs.rut = us[id].rut

\* C11: UsuarioService.update of a stored user with an accepted role raises
\* the service's ValueError if and only if the new email or RUT is that of a
\* different stored user, and then every stored user is unchanged; an update
\* that repeats the user's own current email and RUT succeeds.
C11_UpdateNoSelfConflict ==
    [][(Did("UsuarioService.update") /\ Stored(usuarios, last'.id)
            /\ ~RoleRejected(last'.kwargs))
       => LET id == last'.id
              kwargs == last'.kwargs
          IN /\ (last'.res = "ValueError") <=> TakenByOther(usuarios, id, kwargs)
             /\ last'.res = "ValueError" => usuarios' = usuarios
             /\ RepeatsOwn(usuarios, id, kwargs) =>
                  /\ last'.res = "ok"
                  /\ usuarios'[id].email = usuarios[id].email
                  /\ usuarios'[id].rut = usuarios[id].rut]_vars

\* C11 witness: with two users stored, an update that repeated the user's own
\* email and RUT has succeeded
C11_Witness ==
    /\ last.op = "UsuarioService.update"
    /\ last.res = "ok"
    /\ Cardinality(DOMAIN usuarios) = 2
    /\ Stored(usuarios, last.id)
    /\ RepeatsOwn(usuarios, last.id, last.kwargs)

\* The password the step supplies for user id and the code accepts, as a set:
\* empty when the step supplies none or fails
Accepted(id) ==
    {pw \in Passwords :
        \/ /\ Did("UsuarioService.create") /\ last'.res = "ok" /\ last'.id = id
           /\ \E kwargs \in CuentaCreateKwargs(nextUsuario) :
                /\ "password" \in DOMAIN kwargs
                /\ kwargs.password = pw
                /\ UsuarioCreate(kwargs)
        \/ /\ Did("UsuarioService.update") /\ last'.res = "ok" /\ last'.id = id
           /\ "password" \in DOMAIN last'.kwargs
           /\ last'.kwargs.password = pw
        \/ /\ Did("cambiar_password") /\ last'.res = "True" /\ last'.id = id
           /\ last'.kwargs.password_nuevo = pw}

\* C12: a create, update or cambiar_password call that supplies a password
\* and succeeds stores the one-way hash of that password, which is not the
\* plaintext and against which check_password of the plaintext succeeds; a
\* call that supplies none, or fails, leaves every stored password as it
\* was.  So each stored password is the hash of the last one accepted.
C12_PasswordHashed ==
    [][\A id \in DOMAIN usuarios' :
        /\ \A pw \in Accepted(id) :
              /\ usuarios'[id].password = make_password(pw)
              /\ usuarios'[id].password # RawPassword(pw)
              /\ check_password(pw, usuarios'[id].password)
        /\ (Accepted(id) = {} /\ Stored(usuarios, id)) =>
              usuarios'[id].password = usuarios[id].password]_vars

\* C12 witness: a user has replaced the password given at registration, and
\* the stored hash checks against the new one and not against the old one
C12_Witness ==
    /\ last.op = "cambiar_password"
    /\ last.res = "True"
    /\ last.kwargs.password_nuevo # last.kwargs.password_actual
    /\ check_password(last.kwargs.password_nuevo, usuarios[last.id].password)
    /\ ~check_password(last.kwargs.password_actual, usuarios[last.id].password)

(***************************************************************************)
(* Validators at work: a request builds a validator on its body and calls  *)
(* is_valid() on it, once or several times                                 *)
(***************************************************************************)
MaxCalls == 2

\* The characters of the strings whose format the validators check
RutValido == <<"1", "2", "3", "4", "5", "6", "7", "8", "-", "9">>
RutSinGuion == <<"1", "2", "3", "4", "5", "6", "7", "8", "9">>
EmailValido == <<"a", "n", "a", "@", "x", ".", "c", "l">>
EmailSinArroba == <<"a", "n", "a", "x", ".", "c", "l">>
PasswordFuerte == <<"S", "e", "c", "r", "e", "t", "a", "1", "2", "3">>
PasswordDebil == <<"s", "e", "c", "r", "e", "t", "a", "s">>
PasswordCorta == <<"S", "e", "1">>
PhoneValido == <<"+", "5", "6", "9", "1", "2", "3", "4", "5", "6", "7", "8">>
Iso20240101 == <<"2", "0", "2", "4", "-", "0", "1", "-", "0", "1">>
Iso20231231 == <<"2", "0", "2", "3", "-", "1", "2", "-", "3", "1">>
Iso20240230 == <<"2", "0", "2", "4", "-", "0", "2", "-", "3", "0">>

\* A body with or without a field: the dicts {} and {key: v} for v in values
Field(key, values, absent) ==
    {[k \in {key} |-> v] : v \in values} \cup (IF absent THEN {<<>>} ELSE {})

\* Bodies given to UsuarioValidator
UsuarioDatos ==
    {[first_name |-> StrV("Ana"), last_name |-> StrV("Rojas")] @@ r @@ e @@ pw :
        r \in Field("rut", {Chars(RutValido), Chars(RutSinGuion), IntV(123456789)}, TRUE),
        e \in Field("email", {Chars(EmailValido), Chars(EmailSinArroba)}, FALSE),
        pw \in Field("password", {Chars(PasswordFuerte), Chars(PasswordDebil)}, TRUE)}
    \cup {[first_name |-> StrV("A"), last_name |-> StrV("Rojas"), rut |-> Chars(RutValido),
           email |-> Chars(EmailValido)] @@ x :
            x \in Field("role", {StrV("Gerente"), StrV("Cliente")}, FALSE)
                  \cup Field("phone", {Chars(PhoneValido), Chars(RutValido)}, FALSE)
                  \cup Field("password", {Chars(PasswordCorta)}, FALSE)}

\* Bodies given to UnidadValidator
UnidadDatos ==
    {[proyecto_id |-> StrV("P1"), tipo_unidad |-> StrV("Departamento"),
      precio_venta |-> IntV(5000)] @@ n @@ m @@ e :
        n \in Field("numero_unidad", {StrV("101"), IntV(101)}, TRUE),
        m \in Field("metraje_cuadrado", {IntV(50), IntV(0), StrV("50")}, FALSE),
        e \in Field("estado", {StrV("Disponible"), StrV("Arrendado")}, TRUE)}
    \cup {[proyecto_id |-> StrV("P1"), tipo_unidad |-> StrV("Castillo"),
           numero_unidad |-> StrV("101"), metraje_cuadrado |-> IntV(50),
           estado |-> StrV("No Disponible")]}

\* The values given as a date: a date, ISO strings (one of a day that does
\* not exist) and a number
Fechas ==
    {DateV(2024, 1, 1), Chars(Iso20240101), Chars(Iso20231231), Chars(Iso20240230),
     IntV(20240101)}

\* Bodies given to ProyectoValidator
ProyectoDatos ==
    {[nombre |-> StrV("Torre Sur"), ubicacion |-> StrV("Av. Mar 100")] @@ i @@ f :
        i \in Field("fecha_inicio", Fechas, TRUE),
        f \in Field("fecha_finalizacion", Fechas, TRUE)}
    \cup {[nombre |-> StrV("TS"), ubicacion |-> StrV("Mar"), estado |-> StrV("Vendido"),
           codigo |-> StrV("T1")]}

\* XValidator(request.data)
ValidatorCreate(p, cls, data) ==
    /\ Free(p)
    /\ pc' = [pc EXCEPT ![p] =
                [at |-> "validator", validator |-> NewValidator(cls, data), calls |-> 0,
                 ret |-> "none", prev |-> [ret |-> "none", dict |-> <<>>]]]
    /\ UNCHANGED <<usuarios, unidades, nextUsuario, nextUnidad, proyectos, nextProyecto, last>>

\* validator.is_valid(); the caller then reads get_error_dict().  An
\* exception raised by a check escapes is_valid.
ValidatorIsValid(p) ==
    /\ pc[p].at = "validator"
    /\ pc[p].calls < MaxCalls
    /\ LET r == is_valid(pc[p].validator) IN
       pc' = [pc EXCEPT ![p] =
                IF r.raised # ""
                THEN [at |-> "raised", validator |-> r.validator, exc |-> r.raised]
                ELSE [at |-> "validator", validator |-> r.validator,
                      calls |-> pc[p].calls + 1,
                      ret |-> IF r.ret THEN "True" ELSE "False",
                      prev |-> [ret |-> pc[p].ret,
                                dict |-> get_error_dict(pc[p].validator.errors)]]]
    /\ UNCHANGED <<usuarios, unidades, nextUsuario, nextUnidad, proyectos, nextProyecto, last>>

ValidatorNext ==
    \/ \E p \in Procs, data \in UnidadDatos : ValidatorCreate(p, "UnidadValidator", data)
    \/ \E p \in Procs, data \in UsuarioDatos : ValidatorCreate(p, "UsuarioValidator", data)
    \/ \E p \in Procs, data \in ProyectoDatos : ValidatorCreate(p, "ProyectoValidator", data)
    \/ \E p \in Procs : ValidatorIsValid(p)

ValidatorSpec == Init /\ [][ValidatorNext]_vars

\* C15: after is_valid() the value returned is true if and only if
\* get_error_dict() is empty, and a further is_valid() on the same validator
\* returns the same value and leaves the same error dict.
C15_IsValidIdempotent ==
    \A p \in Procs :
        (pc[p].at = "validator" /\ pc[p].calls >= 1) =>
            LET dict == get_error_dict(pc[p].validator.errors) IN
            /\ (pc[p].ret = "True") <=> (DOMAIN dict = {})
            /\ pc[p].calls >= 2 =>
                 /\ pc[p].ret = pc[p].prev.ret
                 /\ dict = pc[p].prev.dict

\* C15 witness: is_valid() was called twice on a body with errors in two
\* fields, and returned false
C15_Witness ==
    \E p \in Procs :
        /\ pc[p].at = "validator"
        /\ pc[p].calls = 2
        /\ pc[p].ret = "False"
        /\ Cardinality(DOMAIN get_error_dict(pc[p].validator.errors)) >= 2

\* C16 as stated: validation never raises; for every body is_valid() returns
\* a boolean.
C16_ValidationNeverRaises ==
    \A p \in Procs : pc[p].at # "raised"

\* The value is a date, or a string that parses as one: the date, else NoneV
AsDate(x) ==
    IF x.t = "date" THEN x
    ELSE IF x.t = "str" THEN fromisoformat(x.cs)
    ELSE NoneV

\* data with the two dates exchanged
SwapFechas(data) ==
    [data EXCEPT !.fecha_inicio = data.fecha_finalizacion,
                 !.fecha_finalizacion = data.fecha_inicio]

FechaFields == {"fecha_inicio", "fecha_finalizacion"}

\* C19: when both dates are given (as dates or as ISO strings), validation
\* records an error under 'fecha_finalizacion' if and only if fecha_inicio is
\* after fecha_finalizacion, and none under 'fecha_inicio'; equal dates are
\* valid; the exchanged pair of an invalid pair is valid; when a date is
\* absent no date error is recorded.
C19_FechasOrden ==
    \A p \in Procs :
        (/\ pc[p].at = "validator"
         /\ pc[p].validator.cls = "ProyectoValidator"
         /\ pc[p].calls >= 1) =>
            LET data == pc[p].validator.data
                dict == get_error_dict(pc[p].validator.errors)
                inicio == AsDate(Get(data, "fecha_inicio"))
                fin == AsDate(Get(data, "fecha_finalizacion"))
            IN /\ (inicio.t = "date" /\ fin.t = "date") =>
                    /\ ("fecha_finalizacion" \in DOMAIN dict) <=> DateGt(inicio.d, fin.d)
                    /\ "fecha_inicio" \notin DOMAIN dict
                    /\ DateGt(inicio.d, fin.d) =>
                         LET swapped == ProyectoValidator_validate(SwapFechas(data)) IN
                         /\ swapped.raised = ""
                         /\ \A i \in DOMAIN swapped.errors :
                                swapped.errors[i].field \notin FechaFields
               /\ (FechaFields \ DOMAIN data # {}) => FechaFields \cap DOMAIN dict = {}

\* C19 witness: a project whose start is after its completion was refused
\* with an error under 'fecha_finalizacion'
C19_Witness ==
    \E p \in Procs :
        /\ pc[p].at = "validator"
        /\ pc[p].validator.cls = "ProyectoValidator"
        /\ pc[p].calls >= 1
        /\ FechaFields \subseteq DOMAIN pc[p].validator.data
        /\ AsDate(pc[p].validator.data.fecha_inicio).t = "date"
        /\ AsDate(pc[p].validator.data.fecha_finalizacion).t = "date"
        /\ DateGt(AsDate(pc[p].validator.data.fecha_inicio).d,
                  AsDate(pc[p].validator.data.fecha_finalizacion).d)
        /\ "fecha_finalizacion" \in DOMAIN get_error_dict(pc[p].validator.errors)

(***************************************************************************)
(* Requests to the API.  A request is one step: the permission check, the  *)
(* handler and everything the handler calls.                                *)
(***************************************************************************)
\* The request and its response, as recorded in last
ApiCall(viewset, action, user, pk, data, out) ==
    [op |-> "api", id |-> pk, cliente |-> NULL, res |-> "response",
     viewset |-> viewset, action |-> action, user |-> user, data |-> data,
     status |-> out.status, body |-> out.body, service |-> out.service]

\* The tables before the request
DbNow == Db(usuarios, unidades, proyectos)

\* A request to /unidades/: create, update, partial_update, destroy,
\* asignar_cliente or marcar_como_vendida
ApiUnidad(action, user, pk, data) ==
    /\ action = "create" => nextUnidad \in UnidadIds
    /\ \E out \in {UnidadPropiedadViewSet_dispatch(action, user, DbNow, nextUnidad, pk, data)} :
       /\ unidades' = out.db.unidades
       /\ nextUnidad' = IF out.created THEN nextUnidad + 1 ELSE nextUnidad
       /\ last' = ApiCall("unidades", action, user, pk, data, out)
       /\ UNCHANGED <<usuarios, nextUsuario, proyectos, nextProyecto, pc>>

\* Bodies of unit requests: complete ones with each estado the validator
\* accepts, one with an estado it refuses, one with a metraje of zero
ApiUnidadDatos ==
    {[proyecto_id |-> StrV("P1"), numero_unidad |-> StrV("101"),
      tipo_unidad |-> StrV("Departamento"), metraje_cuadrado |-> IntV(50),
      precio_venta |-> IntV(5000), estado |-> StrV(e)] :
        e \in estados_validos \cup {"Arrendado"}}
    \cup {[proyecto_id |-> StrV("P1"), numero_unidad |-> StrV("101"),
           tipo_unidad |-> StrV("Departamento"), metraje_cuadrado |-> IntV(0),
           precio_venta |-> IntV(5000), estado |-> StrV("Disponible")]}

\* Bodies of asignar_cliente: the id of a client, or none
ApiAsignarDatos == {<<>>} \cup {[cliente_id |-> IntV(c)] : c \in UsuarioIds}

ApiUnidadNext ==
    \/ /\ nextUsuario \in UsuarioIds
       /\ UsuarioCreate(PersonaKwargs(nextUsuario, "Cliente"))
    \/ \E user \in Requesters, data \in ApiUnidadDatos :
          ApiUnidad("create", user, NULL, data)
    \/ \E user \in Requesters, pk \in UnidadIds, data \in ApiUnidadDatos :
          ApiUnidad("update", user, pk, data)
    \/ \E user \in Requesters, pk \in UnidadIds, data \in ApiUnidadDatos :
          ApiUnidad("partial_update", user, pk, data)
    \/ \E user \in Requesters, pk \in UnidadIds : ApiUnidad("destroy", user, pk, <<>>)
    \/ \E user \in Requesters, pk \in UnidadIds, data \in ApiAsignarDatos :
          ApiUnidad("asignar_cliente", user, pk, data)
    \/ \E user \in Requesters, pk \in UnidadIds :
          ApiUnidad("marcar_como_vendida", user, pk, <<>>)

ApiUnidadSpec == Init /\ [][ApiUnidadNext]_vars

\* The step is a request to viewset
DidApi(viewset) == last'.op = "api" /\ last'.viewset = viewset

\* C13 as stated: a unit request of an authenticated requester who is not an
\* administrator is answered 403 and leaves the units unchanged, whichever of
\* create, update, partial_update, destroy, asignar_cliente and
\* marcar_como_vendida it is; so a unit changes only for an administrator.
C13_UnidadSoloAdmin ==
    [][DidApi("unidades") =>
        /\ (last'.user.is_authenticated /\ ~last'.user.is_staff) =>
              /\ last'.status = 403
              /\ unidades' = unidades
        /\ unidades' # unidades => last'.user.is_staff]_vars

\* C20 as stated: every stored unit has an estado of the model's
\* STATUS_CHOICES (units are stored by validated requests only).
C20_EstadoEnModelo ==
    \A k \in DOMAIN unidades : unidades[k].estado \in STATUS_CHOICES

(***************************************************************************)
(* Requests to /usuarios/ of the two versions of the API                   *)
(***************************************************************************)
\* A request to the user viewset of a version; data is the body, or the
\* query string of a v2 destroy
ApiUsuario(version, action, user, pk, data) ==
    /\ action = "create" => nextUsuario \in UsuarioIds
    /\ \E out \in {UsuarioViewSet_dispatch(version, action, user, DbNow, nextUsuario, pk, data)} :
       /\ usuarios' = out.db.usuarios
       /\ unidades' = out.db.unidades
       /\ nextUsuario' = IF out.created THEN nextUsuario + 1 ELSE nextUsuario
       /\ last' = ApiCall(version \o "/usuarios", action, user, pk, data, out)
       /\ UNCHANGED <<nextUnidad, proyectos, nextProyecto, pc>>

\* The characters of Ruts[n] and of the address of Persona(n)
RutDe(n) == [i \in 1..10 |-> IF i = 9 THEN "-" ELSE ToString(n)]
LocalChars == <<<<"a", "n", "a">>, <<"l", "u", "i", "s">>, <<"e", "v", "a">>>>
EmailDe(n) == LocalChars[n] \o <<"@", "x", ".", "c", "l">>

\* The body that describes Persona(n)
ApiPersona(n) ==
    [rut |-> Chars(RutDe(n)), email |-> Chars(EmailDe(n)), username |-> StrV(Locales[n]),
     first_name |-> StrV("Ana"), last_name |-> StrV("Rojas")]

\* Bodies of v1 updates: a person with a role, the same without its names
ApiUsuarioDatos ==
    {ApiPersona(n) @@ [role |-> StrV(r)] : n \in 1..2, r \in ROLE_CHOICES}
    \cup {[rut |-> Chars(RutDe(1)), email |-> Chars(EmailDe(1))]}

\* Bodies of v2 updates
ApiUsuarioV2Datos ==
    {ApiPersona(1)} \cup {[is_active |-> BoolV(b)] : b \in BOOLEAN}
    \cup {[role |-> StrV(r)] : r \in {"Administrador", "Gerente"}}

ApiUsuarioNext ==
    \/ /\ nextUsuario \in UsuarioIds
       /\ \E user \in Requesters :
             ApiUsuario("v1", "create", user, NULL, ApiPersona(nextUsuario))
    \/ \E user \in Requesters, pk \in UsuarioIds, data \in ApiUsuarioDatos :
          ApiUsuario("v1", "update", user, pk, data)
    \/ \E user \in Requesters, pk \in UsuarioIds, data \in ApiUsuarioDatos :
          ApiUsuario("v1", "partial_update", user, pk, data)
    \/ \E user \in Requesters, pk \in UsuarioIds : ApiUsuario("v1", "destroy", user, pk, <<>>)
    \/ \E user \in Requesters, pk \in UsuarioIds, data \in ApiUsuarioV2Datos :
          ApiUsuario("v2", "update", user, pk, data)
    \/ \E user \in Requesters, pk \in UsuarioIds, data \in ApiUsuarioV2Datos :
          ApiUsuario("v2", "partial_update", user, pk, data)
    \/ \E user \in Requesters, pk \in UsuarioIds,
          query \in {<<>>} \cup {[soft_delete |-> v] : v \in {"true", "TRUE", "false"}} :
          ApiUsuario("v2", "destroy", user, pk, query)
    \/ \E user \in Requesters, pk \in UsuarioIds : ApiUsuario("v2", "activar", user, pk, <<>>)
    \/ \E user \in Requesters, pk \in UsuarioIds : ApiUsuario("v2", "desactivar", user, pk, <<>>)

ApiUsuarioSpec == Init /\ [][ApiUsuarioNext]_vars

\* C14 as stated: in either version of the API a request that changes or
\* removes an existing user (update, partial_update, destroy, activar,
\* desactivar) sent by an authenticated requester who is not an administrator
\* is answered 403 and leaves the users unchanged; so such a request changes
\* the users only for an administrator.
C14_UsuarioSoloAdmin ==
    [][(DidApi("v1/usuarios") \/ DidApi("v2/usuarios")) /\ last'.action # "create" =>
        /\ (last'.user.is_authenticated /\ ~last'.user.is_staff) =>
              /\ last'.status = 403
              /\ usuarios' = usuarios
        /\ usuarios' # usuarios => last'.user.is_staff]_vars

(***************************************************************************)
(* Requests to /proyectos/                                                 *)
(***************************************************************************)
\* A request to /proyectos/: create, update, partial_update or destroy
ApiProyecto(action, user, pk, data) ==
    /\ action = "create" => nextProyecto \in ProyectoIds
    /\ \E out \in {ProyectoInmobiliarioViewSet_dispatch(action, user, DbNow, nextProyecto, pk, data)} :
       /\ proyectos' = out.db.proyectos
       /\ nextProyecto' = IF out.created THEN nextProyecto + 1 ELSE nextProyecto
       /\ last' = ApiCall("proyectos", action, user, pk, data, out)
       /\ UNCHANGED <<usuarios, nextUsuario, unidades, nextUnidad, pc>>

Iso20240630 == <<"2", "0", "2", "4", "-", "0", "6", "-", "3", "0">>

\* Bodies of project requests: a name and a place, with or without each of
\* the two dates; and one whose name is too short
ApiProyectoDatos ==
    {[nombre |-> StrV("Torre Sur"), ubicacion |-> StrV("Av. Mar 100")] @@ i @@ f :
        i \in Field("fecha_inicio", {Chars(Iso20240101)}, TRUE),
        f \in Field("fecha_finalizacion",
                    {Chars(Iso20231231), Chars(Iso20240630), Chars(Iso20240230)}, TRUE)}
    \cup {[nombre |-> StrV("TS"), ubicacion |-> StrV("Av. Mar 100"),
           fecha_inicio |-> Chars(Iso20240101)]}

ApiProyectoNext ==
    \/ \E user \in Requesters, data \in ApiProyectoDatos :
          ApiProyecto("create", user, NULL, data)
    \/ \E user \in Requesters, pk \in ProyectoIds, data \in ApiProyectoDatos :
          ApiProyecto("update", user, pk, data)
    \/ \E user \in Requesters, pk \in ProyectoIds, data \in ApiProyectoDatos :
          ApiProyecto("partial_update", user, pk, data)
    \/ \E user \in Requesters, pk \in ProyectoIds : ApiProyecto("destroy", user, pk, <<>>)

ApiProyectoSpec == Init /\ [][ApiProyectoNext]_vars

\* C18 as stated: after any sequence of validated project create and update
\* requests, every stored project that has a fecha_finalizacion has
\* fecha_finalizacion >= fecha_inicio.
C18_FechasGuardadas ==
    \A k \in DOMAIN proyectos :
        proyectos[k].fecha_finalizacion.t = "date" =>
            ~DateGt(proyectos[k].fecha_inicio.d, proyectos[k].fecha_finalizacion.d)

(***************************************************************************)
(* The create and update requests of the three viewsets that validate the  *)
(* body with a Validator                                                   *)
(***************************************************************************)
\* Bodies: one the validator accepts and ones it refuses
ValUsuarioDatos(n) == {ApiPersona(n), [rut |-> Chars(RutDe(n)), email |-> Chars(EmailSinArroba)]}

ValUnidadDatos == {d \in ApiUnidadDatos : d.estado.s \in {"Disponible", "Arrendado"}}

ValProyectoDatos ==
    {d \in ApiProyectoDatos : "fecha_finalizacion" \notin DOMAIN d}
    \cup {[nombre |-> StrV("Torre Sur"), ubicacion |-> StrV("Av. Mar 100"),
           fecha_inicio |-> Chars(Iso20240101), fecha_finalizacion |-> Chars(Iso20231231)]}

ApiValidacionNext ==
    \/ /\ nextUsuario \in UsuarioIds
       /\ \E user \in Requesters, data \in ValUsuarioDatos(nextUsuario) :
             ApiUsuario("v1", "create", user, NULL, data)
    \/ \E user \in Requesters, pk \in UsuarioIds, action \in {"update", "partial_update"} :
          \E data \in ValUsuarioDatos(pk) : ApiUsuario("v1", action, user, pk, data)
    \/ \E user \in Requesters, data \in ValProyectoDatos :
          ApiProyecto("create", user, NULL, data)
    \/ \E user \in Requesters, pk \in ProyectoIds, data \in ValProyectoDatos,
          action \in {"update", "partial_update"} :
          ApiProyecto(action, user, pk, data)
    \/ \E user \in Requesters, data \in ValUnidadDatos :
          ApiUnidad("create", user, NULL, data)
    \/ \E user \in Requesters, pk \in UnidadIds, data \in ValUnidadDatos,
          action \in {"update", "partial_update"} :
          ApiUnidad(action, user, pk, data)

ApiValidacionSpec == Init /\ [][ApiValidacionNext]_vars

\* The validator class and the table of a viewset
ValidatorOf(viewset) ==
    CASE viewset = "v1/usuarios" -> "UsuarioValidator"
      [] viewset = "proyectos" -> "ProyectoValidator"
      [] viewset = "unidades" -> "UnidadValidator"

TableOf(viewset) ==
    CASE viewset = "v1/usuarios" -> usuarios
      [] viewset = "proyectos" -> proyectos
      [] viewset = "unidades" -> unidades

\* The permission the viewset asks for the action
PermissionOf(viewset, action) ==
    CASE viewset = "v1/usuarios" -> UsuarioViewSet_get_permissions(action)
      [] viewset = "proyectos" -> ProyectoInmobiliarioViewSet_get_permissions(action)
      [] viewset = "unidades" -> UnidadPropiedadViewSet_get_permissions(action)

\* The step is a create or update request that reached its handler (the
\* requester is permitted, the row of an update exists) and whose body the
\* validator of the viewset refuses
RefusedByValidator ==
    /\ last'.op = "api"
    /\ last'.viewset \in {"v1/usuarios", "proyectos", "unidades"}
    /\ last'.action \in {"create", "update", "partial_update"}
    /\ has_permission(PermissionOf(last'.viewset, last'.action), last'.user)
    /\ last'.action # "create" => Stored(TableOf(last'.viewset), last'.id)
    /\ Validate(ValidatorOf(last'.viewset), last'.data).raised = ""
    /\ Validate(ValidatorOf(last'.viewset), last'.data).errors # <<>>

\* C17: a create or update request of the User, Project or Unit viewset whose
\* validator's is_valid() is false does not call the Service, leaves every
\* table unchanged and is answered 400 with exactly get_error_dict() as body.
C17_InvalidIs400 ==
    [][RefusedByValidator =>
        /\ ~last'.service
        /\ UNCHANGED <<usuarios, unidades, proyectos, nextUsuario, nextUnidad, nextProyecto>>
        /\ last'.status = 400
        /\ last'.body = ErrorDict(get_error_dict(
                            Validate(ValidatorOf(last'.viewset), last'.data).errors))]_vars

\* An administrator's update of a stored unit with an estado the validator
\* refuses was answered 400 with the error of the field estado
C17_Witness ==
    /\ last.op = "api"
    /\ last.viewset = "unidades"
    /\ last.action = "update"
    /\ last.user = Admin
    /\ Stored(unidades, last.id)
    /\ last.data.estado = StrV("Arrendado")
    /\ last.status = 400
    /\ last.body.kind = "errors"
    /\ "estado" \in DOMAIN last.body.errors

(***************************************************************************)
(* The client of a unit; the outcome for a unit that is not stored         *)
(***************************************************************************)
\* C21 as stated: in every reachable state the cliente of a unit, when set,
\* is the id of a stored user whose role is 'Cliente'.
C21_ClienteEsCliente ==
    \A k \in DOMAIN unidades :
        unidades[k].cliente_id # NULL =>
            /\ Stored(usuarios, unidades[k].cliente_id)
            /\ usuarios[unidades[k].cliente_id].role = "Cliente"

\* C22 as stated: asignar_cliente or marcar_como_vendida with an id for which
\* no unit is stored reports an outcome of its own, which is neither success
\* nor one of the business-rule errors (UnidadNoDisponibleError,
\* ClienteNoValidoError) reported for a stored unit in the wrong state.
C22_NotFoundDistinto ==
    [][((Did("asignar_cliente") \/ Did("marcar_como_vendida"))
            /\ ~Stored(unidades, last'.id))
        => last'.res \notin {"ok", "UnidadNoDisponibleError", "ClienteNoValidoError"}]_vars

(***************************************************************************)
(* The answer to a reserve or mark-sold request that a business rule       *)
(* refuses                                                                 *)
(***************************************************************************)
\* The business-rule error the service raises for the request of the step
\* ("ok" or another outcome otherwise); the request reached its handler
BusinessError ==
    IF ~(DidApi("unidades") /\ last'.user.is_authenticated) THEN "none"
    ELSE IF last'.action = "asignar_cliente" /\ Truthy(Get(last'.data, "cliente_id"))
    THEN AsignarCliente(unidades, usuarios, last'.id, Untag(last'.data.cliente_id)).res
    ELSE IF last'.action = "marcar_como_vendida"
    THEN MarcarComoVendida(unidades, usuarios, last'.id).res
    ELSE "none"

\* C23 as stated: a reserve or mark-sold request that fails a business rule is
\* answered 400 with a body that carries the single message of the error and
\* its machine-readable code ('unidad_no_disponible' or 'cliente_no_valido').
C23_MensajeYCodigo ==
    [][(BusinessError \in {"UnidadNoDisponibleError", "ClienteNoValidoError"}) =>
        /\ last'.status = 400
        /\ last'.body.kind = "error"
        /\ last'.body.error = default_detail(BusinessError)
        /\ "code" \in DOMAIN last'.body
        /\ last'.body.code = default_code(BusinessError)]_vars

(***************************************************************************)
(* get_estadisticas_por_proyecto as a function of the stored units: the    *)
(* table is drawn from the tables of at most MaxFilas units                *)
(***************************************************************************)
MaxFilas == 3

\* Units of two projects, two types, two prices and two estados
FilasStats ==
    {NewRow(UnidadDefaults, kw) :
        kw \in [proyecto_id : {"P1", "P2"}, tipo_unidad : {"Departamento", "Casa"},
                precio_venta : {3000, 5000}, estado : {"Disponible", "Vendido"}]}

EstadisticasInit ==
    /\ usuarios = <<>>
    /\ \E n \in 0..MaxFilas : unidades \in [1..n -> FilasStats]
    /\ nextUsuario = 1
    /\ nextUnidad = Len(unidades) + 1
    /\ proyectos = <<>>
    /\ nextProyecto = 1
    /\ last = Call("none", NULL, NULL, "none")
    /\ pc = [p \in Procs |-> Idle]

\* UnidadService.get_estadisticas_por_proyecto(proyecto_id); the result is
\* recorded
Estadisticas(proyecto_id) ==
    /\ last' = [op |-> "get_estadisticas_por_proyecto", id |-> NULL, cliente |-> NULL,
                res |-> "ok", proyecto_id |-> proyecto_id,
                stats |-> get_estadisticas_por_proyecto(unidades, proyecto_id)]
    /\ UNCHANGED <<usuarios, unidades, nextUsuario, nextUnidad, proyectos, nextProyecto, pc>>

EstadisticasNext == \E proyecto_id \in {"P1", "P2"} : Estadisticas(proyecto_id)

EstadisticasSpec == EstadisticasInit /\ [][EstadisticasNext]_vars

\* The stored units of a project, and those of them with a value in a field
UnidadesDe(proyecto_id) == {k \in DOMAIN unidades : unidades[k].proyecto_id = proyecto_id}
ConValor(S, field, value) == {k \in S : unidades[k][field] = value}

\* A grouping maps each value of the field that occurs in S to the number of
\* units of S with that value, and has no other key
GroupingOf(d, S, field) ==
    /\ DOMAIN d = {unidades[k][field] : k \in S}
    /\ \A value \in DOMAIN d : d[value] = Cardinality(ConValor(S, field, value))

\* C24: get_estadisticas_por_proyecto(p) counts only the units of p:
\* total_unidades is their number, precio_minimo and precio_maximo are the
\* least and the greatest precio_venta among them, precio_minimo <=
\* precio_promedio <= precio_maximo, each grouping maps a value to the number
\* of those units with it; with no unit of p the total is 0, the price
\* aggregates are null and the groupings are empty.
C24_Estadisticas ==
    last.op = "get_estadisticas_por_proyecto" =>
        LET S == UnidadesDe(last.proyecto_id)
            P == {unidades[k].precio_venta : k \in S}
            s == last.stats
        IN /\ last.res = "ok"
           /\ s.total_unidades = Cardinality(S)
           /\ GroupingOf(s.unidades_por_estado, S, "estado")
           /\ GroupingOf(s.unidades_por_tipo, S, "tipo_unidad")
           /\ S = {} =>
                /\ s.precio_promedio = [none |-> TRUE]
                /\ s.precio_minimo = [none |-> TRUE]
                /\ s.precio_maximo = [none |-> TRUE]
           /\ S # {} =>
                /\ s.precio_minimo.v \in P
                /\ s.precio_maximo.v \in P
                /\ \A x \in P : s.precio_minimo.v <= x /\ x <= s.precio_maximo.v
                /\ s.precio_promedio.n = Cardinality(S)
                /\ s.precio_minimo.v * s.precio_promedio.n <= s.precio_promedio.sum
                /\ s.precio_promedio.sum <= s.precio_maximo.v * s.precio_promedio.n

\* The statistics of a project with two units of different price were
\* computed while a unit of the other project is stored
C24_Witness ==
    /\ last.op = "get_estadisticas_por_proyecto"
    /\ last.stats.total_unidades = 2
    /\ last.stats.precio_minimo.v < last.stats.precio_maximo.v
    /\ Cardinality(DOMAIN unidades) = 3

(***************************************************************************)
(* The v2 destroy request                                                  *)
(***************************************************************************)
\* The v2 requests that end or resume a user's account, on users registered
\* through the public create
BajaNext ==
    \/ /\ nextUsuario \in UsuarioIds
       /\ \E user \in Requesters :
             ApiUsuario("v1", "create", user, NULL, ApiPersona(nextUsuario))
    \/ \E user \in Requesters, pk \in UsuarioIds,
          query \in {<<>>} \cup {[soft_delete |-> v] : v \in {"true", "TRUE", "false"}} :
          ApiUsuario("v2", "destroy", user, pk, query)
    \/ \E user \in Requesters, pk \in UsuarioIds : ApiUsuario("v2", "activar", user, pk, <<>>)
    \/ \E user \in Requesters, pk \in UsuarioIds : ApiUsuario("v2", "desactivar", user, pk, <<>>)

BajaSpec == Init /\ [][BajaNext]_vars

\* C25: a v2 destroy request in its default (soft) mode never removes the
\* user: the user stays stored, with is_active false and every other field
\* (and every other user) unchanged when the request is carried out; a user is
\* removed only when soft_delete is given as something other than 'true'.
C25_SoftDelete ==
    [][(DidApi("v2/usuarios") /\ last'.action = "destroy" /\ Stored(usuarios, last'.id)) =>
        LET soft == "soft_delete" \notin DOMAIN last'.data \/ last'.data.soft_delete = "true"
        IN /\ soft => Stored(usuarios', last'.id)
           /\ (soft /\ last'.user.is_staff) =>
                 /\ last'.status = 200
                 /\ usuarios' = Put(usuarios, last'.id,
                                    [usuarios[last'.id] EXCEPT !.is_active = FALSE])
           /\ ~Stored(usuarios', last'.id) =>
                 /\ "soft_delete" \in DOMAIN last'.data
                 /\ last'.data.soft_delete # "true"]_vars

\* An administrator's default destroy of an active user was answered 200 and
\* the user is stored, inactive
C25_Witness ==
    /\ last.op = "api"
    /\ last.viewset = "v2/usuarios"
    /\ last.action = "destroy"
    /\ last.data = <<>>
    /\ last.user = Admin
    /\ last.status = 200
    /\ Stored(usuarios, last.id)
    /\ ~usuarios[last.id].is_active

(***************************************************************************)
(* UsuarioValidator on bodies with required fields missing or empty        *)
(***************************************************************************)
\* Bodies given to UsuarioValidator: each required field absent, empty or
\* given; the rut also as a number, the email also without '@'
RequeridosDatos ==
    {r @@ e @@ f @@ l :
        r \in Field("rut", {Chars(<<>>), Chars(RutValido), IntV(123456789)}, TRUE),
        e \in Field("email", {Chars(<<>>), Chars(EmailValido), Chars(EmailSinArroba)}, TRUE),
        f \in Field("first_name", {StrV(""), StrV("Ana")}, TRUE),
        l \in Field("last_name", {NoneV, StrV("Rojas")}, FALSE)}

RequeridosNext ==
    \/ \E p \in Procs, data \in RequeridosDatos : ValidatorCreate(p, "UsuarioValidator", data)
    \/ \E p \in Procs : ValidatorIsValid(p)

RequeridosSpec == Init /\ [][RequeridosNext]_vars

\* The required fields of a user, and those of them a body lacks (absent,
\* None or empty)
Requeridos == {"rut", "email", "first_name", "last_name"}
Faltan(data) == {f \in Requeridos : ~Truthy(Get(data, f))}

\* The body with every field it lacks given a value the validator accepts
Completo(data) ==
    LET bueno == [rut |-> Chars(RutValido), email |-> Chars(EmailValido),
                  first_name |-> StrV("Ana"), last_name |-> StrV("Rojas")]
    IN [f \in (DOMAIN data) \cup Requeridos |->
            IF f \in Faltan(data) THEN bueno[f] ELSE data[f]]

\* C26 as stated: for every body in which rut, email, first_name or last_name
\* is missing or empty, is_valid() returns false (it does not raise) and
\* get_error_dict() has the key of each such field with exactly one message;
\* the messages under every other key are those of the body with the missing
\* fields filled in.
C26_RequeridosEnDict ==
    \A p \in Procs :
        (pc[p].at # "idle" /\ Faltan(pc[p].validator.data) # {}) =>
            /\ pc[p].at # "raised"
            /\ pc[p].calls >= 1 =>
                 LET data == pc[p].validator.data
                     dict == get_error_dict(pc[p].validator.errors)
                     otros == get_error_dict(Validate("UsuarioValidator", Completo(data)).errors)
                 IN /\ pc[p].ret = "False"
                    /\ \A f \in Faltan(data) : f \in DOMAIN dict /\ Len(dict[f]) = 1
                    /\ DOMAIN dict = Faltan(data) \cup DOMAIN otros
                    /\ \A f \in DOMAIN otros : dict[f] = otros[f]

(***************************************************************************)
(* UsuarioService.create with an email and a RUT that no stored user has   *)
(***************************************************************************)
\* C30 as stated: UsuarioService.create stores the new user whenever its
\* email and its RUT are not those of a stored user and its role is absent or
\* one of ROLE_CHOICES (with or without a username).
C30_CreatePersiste ==
    [][\A kwargs \in UsuarioKwargs :
        (/\ UsuarioCreate(kwargs)
         /\ get_by_email(usuarios, kwargs.email) = {}
         /\ get_by_rut(usuarios, kwargs.rut) = {}
         /\ ~RoleOutside(kwargs))
        => /\ last'.res = "ok"
           /\ Stored(usuarios', nextUsuario)]_vars

(***************************************************************************)
(* An actor without credentials: registration through the public create,   *)
(* a token for a registered user, then requests made with the token        *)
(***************************************************************************)
\* The bearer of a token for user_id
Token(user_id) == [at |-> "token", user_id |-> user_id]

\* TokenObtainPairView (rest_framework_simplejwt): a token for the active
\* user with that address whose password matches
ObtenerToken(p, user_id, password) ==
    /\ Stored(usuarios, user_id)
    /\ usuarios[user_id].is_active
    /\ check_password(password, usuarios[user_id].password)
    /\ pc' = [pc EXCEPT ![p] = Token(user_id)]
    /\ UNCHANGED <<usuarios, unidades, nextUsuario, nextUnidad, proyectos, nextProyecto, last>>

\* request.user of a request of p: anonymous without a token (or with the
\* token of a user that is no longer stored or active), else the user
RequestUser(p) ==
    IF /\ pc[p].at = "token"
       /\ Stored(usuarios, pc[p].user_id)
       /\ usuarios[pc[p].user_id].is_active
    THEN [is_authenticated |-> TRUE, is_staff |-> usuarios[pc[p].user_id].is_staff]
    ELSE Anonimo

\* Bodies of the registration of person n: with a password, and with or
\* without the flags of the staff and a role
RegistroDatos(n) ==
    {ApiPersona(n) @@ [password |-> Chars(PasswordFuerte)] @@ x :
        x \in {<<>>, [role |-> StrV("Administrador")], [is_staff |-> BoolV(TRUE)],
               [is_superuser |-> BoolV(TRUE)]}}

\* The requests that need IsAdminUser
SoloAdmin == {"create", "update", "partial_update", "destroy"}

EscaladaNext ==
    \/ /\ nextUsuario \in UsuarioIds
       /\ \E p \in Procs, data \in RegistroDatos(nextUsuario) :
             ApiUsuario("v1", "create", RequestUser(p), NULL, data)
    \/ \E p \in Procs, user_id \in UsuarioIds : ObtenerToken(p, user_id, Join(PasswordFuerte))
    \/ \E p \in Procs, data \in ValUnidadDatos : ApiUnidad("create", RequestUser(p), NULL, data)
    \/ \E p \in Procs, data \in ValProyectoDatos :
          ApiProyecto("create", RequestUser(p), NULL, data)
    \/ \E p \in Procs, pk \in UsuarioIds : ApiUsuario("v1", "destroy", RequestUser(p), pk, <<>>)

EscaladaSpec == Init /\ [][EscaladaNext]_vars

\* C27 as stated: a user created through the public create endpoint never
\* holds administrator privileges (is_staff and is_superuser stay false
\* whatever the body contains), so no request of an actor who started without
\* credentials reaches an administrator-only mutation of a project, a unit or
\* a user: each such request is answered 401 or 403.
C27_SinEscalada ==
    [][/\ \A k \in DOMAIN usuarios' :
            ~usuarios'[k].is_staff /\ ~usuarios'[k].is_superuser
       /\ (/\ last'.op = "api"
           /\ \/ last'.viewset \in {"unidades", "proyectos"} /\ last'.action \in SoloAdmin
              \/ last'.viewset = "v1/usuarios" /\ last'.action \in SoloAdmin \ {"create"})
          => last'.status \in {401, 403}]_vars

(***************************************************************************)
(* Overlapping service calls on one unit: marcar_como_vendida and updates  *)
(* of precio_venta, each a read followed later by a save                   *)
(***************************************************************************)
\* marcar_como_vendida, lines 70-77: "unidad = self.get_by_id(unidad_id)" and
\* the three checks; a call that passes goes on to self.update(...)
MarcarBegin(p, unidad_id) ==
    /\ Free(p)
    /\ pc' = [pc EXCEPT ![p] =
                IF ~Stored(unidades, unidad_id) \/ unidades[unidad_id].estado # "Reservado"
                THEN Done("marcar_como_vendida", unidad_id, NULL, "UnidadNoDisponibleError")
                ELSE IF unidades[unidad_id].cliente_id = NULL
                THEN Done("marcar_como_vendida", unidad_id, NULL, "ClienteNoValidoError")
                ELSE [at |-> "update", op |-> "marcar_como_vendida", id |-> unidad_id,
                      cliente |-> NULL, kwargs |-> [estado |-> "Vendido"]]]
    /\ UNCHANGED <<usuarios, unidades, nextUsuario, nextUnidad, proyectos, nextProyecto, last>>

\* A call of the service's update(id, **kwargs)
UpdateBegin(p, id, kwargs) ==
    /\ Free(p)
    /\ pc' = [pc EXCEPT ![p] = [at |-> "update", op |-> "update", id |-> id,
                                cliente |-> NULL, kwargs |-> kwargs]]
    /\ UNCHANGED <<usuarios, unidades, nextUsuario, nextUnidad, proyectos, nextProyecto, last>>

\* The prices an update names
Precios == {6000, 7000}

SolapeNext ==
    \/ /\ nextUsuario \in UsuarioIds
       /\ UsuarioCreate(PersonaKwargs(nextUsuario, "Cliente"))
    \/ \E kwargs \in UnidadKwargs : UnidadCreate(kwargs)
    \/ \E p \in Procs, id \in UnidadIds : MarcarBegin(p, id)
    \/ \E p \in Procs, id \in UnidadIds, precio \in Precios :
          UpdateBegin(p, id, [precio_venta |-> precio])
    \/ \E p \in Procs : UpdateLoad(p)
    \/ \E p \in Procs : UpdateSave(p)

SolapeSpec == Init /\ [][SolapeNext]_vars

\* C28 as stated: a service update changes only the fields it names, also
\* when calls on the same unit overlap: the save of a call leaves every field
\* of the stored row that the call did not name as it was stored just before
\* the save (it does not put back the value the call read earlier), so after
\* marcar_como_vendida and an update of precio_venta the row has both changes.
C28_SoloCamposNombrados ==
    [][\A p \in Procs :
          (/\ pc[p].at = "save"
           /\ pc'[p].at = "done"
           /\ pc'[p].res = "ok"
           /\ Stored(unidades, pc[p].id))
          => \A f \in DOMAIN unidades[pc[p].id] \ DOMAIN pc[p].kwargs :
                unidades'[pc[p].id][f] = unidades[pc[p].id][f]]_vars

(***************************************************************************)
(* get_estadisticas_por_proyecto among other requests: aggregate() is one  *)
(* query and the first loop over the queryset is another; the second loop  *)
(* reads the rows the first one fetched                                    *)
(***************************************************************************)
\* Lines 84-92: the queryset is built (no query yet) and aggregate() runs
EstadisticasAggregate(p, proyecto_id) ==
    /\ Free(p)
    /\ pc' = [pc EXCEPT ![p] =
                [at |-> "iterate", proyecto_id |-> proyecto_id,
                 stats |-> Aggregate(unidades, get_by_proyecto(unidades, proyecto_id))]]
    /\ UNCHANGED <<usuarios, unidades, nextUsuario, nextUnidad, proyectos, nextProyecto, last>>

\* Lines 94-113: "for unidad in unidades" fetches the rows, both groupings
\* are counted over them and the result is returned
EstadisticasIterate(p) ==
    /\ pc[p].at = "iterate"
    /\ \E ids \in {get_by_proyecto(unidades, pc[p].proyecto_id)} :
          pc' = [pc EXCEPT ![p] =
                   [at |-> "done", op |-> "get_estadisticas_por_proyecto", id |-> NULL,
                    cliente |-> NULL, res |-> "ok", proyecto_id |-> pc[p].proyecto_id,
                    stats |-> [precio_promedio |-> pc[p].stats.precio_promedio,
                               precio_minimo |-> pc[p].stats.precio_minimo,
                               precio_maximo |-> pc[p].stats.precio_maximo,
                               total_unidades |-> pc[p].stats.total_unidades,
                               unidades_por_estado |-> Tally(unidades, ids, "estado", <<>>),
                               unidades_por_tipo |-> Tally(unidades, ids, "tipo_unidad", <<>>)]]]
    /\ UNCHANGED <<usuarios, unidades, nextUsuario, nextUnidad, proyectos, nextProyecto, last>>

ConcEstadisticasNext ==
    \/ \E kwargs \in UnidadKwargsSinCliente : UnidadCreate(kwargs)
    \/ \E id \in UnidadIds : UnidadDelete(id)
    \/ \E p \in Procs, proyecto_id \in Proyectos : EstadisticasAggregate(p, proyecto_id)
    \/ \E p \in Procs : EstadisticasIterate(p)

ConcEstadisticasSpec == Init /\ [][ConcEstadisticasNext]_vars

\* The sum of the counts of a grouping
RECURSIVE SumaConteos(_)
SumaConteos(d) ==
    IF DOMAIN d = {} THEN 0
    ELSE LET key == CHOOSE k \in DOMAIN d : TRUE
         IN d[key] + SumaConteos([k \in DOMAIN d \ {key} |-> d[k]])

\* C29 as stated: in every result of get_estadisticas_por_proyecto,
\* total_unidades equals the sum of the counts of unidades_por_estado and the
\* sum of the counts of unidades_por_tipo, also when units of the project are
\* created or deleted by other requests during the computation.
C29_TotalIgualSuma ==
    \A p \in Procs :
        (pc[p].at = "done" /\ pc[p].op = "get_estadisticas_por_proyecto") =>
            /\ pc[p].stats.total_unidades = SumaConteos(pc[p].stats.unidades_por_estado)
            /\ pc[p].stats.total_unidades = SumaConteos(pc[p].stats.unidades_por_tipo)

====
